---------------------------- MODULE Spec2Model ----------------------------
(***************************************************************************)
(* A model of the Linkclump browser extension and of the shared library it *)
(* is built on: the background activation handler with its sequential tab  *)
(* opener, the typed message bus, the settings manager (both variants),   *)
(* the migration runner, the content script's selection engine, the        *)
(* toolbar-action policy and the typed storage wrapper.  Each subsystem    *)
(* has its own initial predicate and next-state relation over the shared   *)
(* variables; the variables of the subsystems a specification does not     *)
(* exercise keep their idle values.                                        *)
(***************************************************************************)
EXTENDS Integers, Sequences, FiniteSets, TLC

(***************************************************************************)
(* Bounds of the model.                                                    *)
(***************************************************************************)
MaxLinks == 3
MaxTime == 2

(***************************************************************************)
(* JavaScript values.  A value that is not a string is the marker          *)
(* NotAString; None stands for undefined / null / "no value".              *)
(***************************************************************************)
NotAString == "#not-a-string"
None == "#none"
NoTime == 0 - 1
NoIndex == 0 - 1

IsString(v) == v # NotAString /\ v # None

VARIABLES
    \* ---- background worker: LINKCLUMP_ACTIVATE and openTabsSequentially
    payload,        \* the request payload {urls, setting}
    sender,         \* sender.tab of the request (id, index) or NoTab
    hpc,            \* position of the async ACTIVATE handler
    response,       \* what the bus sent back, None while unanswered
    handed,         \* the per-action handler called and the list it was given
    urls,           \* the array shared by the openTabsSequentially chain
    createInFlight, \* a chrome.tabs.create call is awaiting its result
    nextTimer,      \* the setTimeout that continues the chain, or NoTimer
    removeTimers,   \* number of auto-close timers scheduled
    creations,      \* log of chrome.tabs.create calls
    failed,         \* a platform call of this activation has rejected
    now,            \* the clock, in seconds
    \* ---- message bus, sending side: sendToBackground / sendToTab
    calls,          \* per call: its promise, its timer, the platform callback
    \* ---- message bus, receiving side: the listener installed by on()
    onType,         \* the type the listener was registered for
    deliveries,     \* per delivered message: what the listener did with it
    \* ---- chrome.storage
    syncStore,      \* chrome.storage.sync: key -> stored value
    localStore,     \* chrome.storage.local: key -> stored value
    written,        \* the writes of the operation in progress, in order
    \* ---- settings manager
    variant,        \* which SettingManager: versioned or centralized
    running,        \* the method in progress and where it is
    settled,        \* how the promise of that method settled
    before,         \* chrome.storage.sync when the method was called
    previous,       \* the method called before it, and its outcome
    \* ---- migration runner
    manifest,       \* chrome.runtime.getManifest().version
    migrations,     \* the configured list of migrations
    run,            \* the run of runMigrations in progress
    lastRun,        \* the run before it: outcome, steps, storage it left
    \* ---- content script: the selection engine
    core,           \* the fields of the Core object
    dom,            \* the selection box and the window's listeners
    gesture,        \* what happened since the gesture's mouse-down
    page,           \* document.links
    \* ---- background worker: toolbar-action policy
    worker,         \* which background worker: linkclump or starter
    toolbar,        \* per tab: the toolbar action and the URL applied last
    \* ---- typed storage wrapper
    areas,          \* the storage areas: key -> value
    platformCalls,  \* platform storage calls issued and not yet called back
    kvCall,         \* the last set / setAll / remove call and its error
    \* ---- options page: changing the type of an action
    optionsPage,    \* the action being edited and its options before
    \* ---- settings migration applied to a settings value
    cfgRun,         \* the value, the value before, the number of passes
    \* ---- background worker: LINKCLUMP_UPDATE
    upd,            \* the handler: its position, the tabs, what it did
    \* ---- mount()
    doc,            \* the document's elements and the calls of mount
    \* ---- version comparison
    cmp,            \* three versions and the comparisons made of them
    \* ---- background worker: alarms
    alarmSys,       \* chrome.alarms, its pending requests, the setup runs
    \* ---- background worker: the daily cleanup
    sweep,          \* the storage areas and the cleanup in progress
    \* ---- error normalisation
    norm,           \* the values normalised and what came out
    \* ---- a second context on the same chrome.storage.sync
    peer            \* what the other context's settings manager wrote

actVars == <<payload, sender, hpc, response, handed, urls, createInFlight,
             nextTimer, removeTimers, creations, failed, now>>

sndVars == <<calls>>

busVars == <<onType, deliveries>>

storeVars == <<syncStore, localStore, written>>

setVars == <<variant, running, settled, before, previous>>

migVars == <<manifest, migrations, run, lastRun>>

coreVars == <<core, dom, gesture, page>>

polVars == <<worker, toolbar>>

kvVars == <<areas, platformCalls, kvCall>>

libVars == <<optionsPage, cfgRun, upd, doc>>

extVars == <<cmp, alarmSys, sweep, norm, peer>>

vars == <<actVars, sndVars, busVars, storeVars, setVars, migVars, coreVars,
         polVars, kvVars, libVars, extVars>>

\* What the actions of one subsystem leave alone.
notAct == <<sndVars, busVars, storeVars, setVars, migVars, coreVars,
           polVars, kvVars, libVars, extVars>>
notSnd == <<actVars, busVars, storeVars, setVars, migVars, coreVars,
           polVars, kvVars, libVars, extVars>>
notBus == <<actVars, sndVars, storeVars, setVars, migVars, coreVars,
           polVars, kvVars, libVars, extVars>>
notSet == <<actVars, sndVars, busVars, migVars, coreVars,
           polVars, kvVars, libVars, extVars>>
notCore == <<actVars, sndVars, busVars, storeVars, setVars, migVars,
            polVars, kvVars, libVars, extVars>>
notPol == <<actVars, sndVars, busVars, storeVars, setVars, migVars,
           coreVars, kvVars, libVars, extVars>>
notKv == <<actVars, sndVars, busVars, storeVars, setVars, migVars,
          coreVars, polVars, libVars, extVars>>
notLib == <<actVars, sndVars, busVars, storeVars, setVars, migVars,
           coreVars, polVars, kvVars, extVars>>
notMig == <<actVars, sndVars, busVars, setVars, coreVars,
           polVars, kvVars, libVars, extVars>>
notExt == <<actVars, sndVars, busVars, storeVars, setVars, migVars,
           coreVars, polVars, kvVars, libVars>>

MaxCalls == 2
MaxDeliveries == 2

(***************************************************************************)
(* Link lists.                                                             *)
(***************************************************************************)
Link(u, t) == [kind |-> "object", url |-> u, title |-> t]
UndefinedEntry == [kind |-> "undefined", url |-> None, title |-> None]
NullEntry == [kind |-> "null", url |-> None, title |-> None]

Entries ==
    { Link("a", "t1"), Link("a", "t2"), Link("b", "t3"),
      Link(NotAString, "t1"), Link("b", NotAString),
      UndefinedEntry, NullEntry }

RECURSIVE SeqsUpTo(_, _)
SeqsUpTo(S, n) ==
    IF n = 0 THEN { <<>> }
    ELSE LET shorter == SeqsUpTo(S, n - 1)
         IN shorter \cup { Append(s, e) : s \in { t \in shorter : Len(t) = n - 1 }, e \in S }

ActionTypes == { "tabs", "window", "copy", "bookmark" }
Delays == { 0, 1 }
CloseTimes == { 0, 1 }

(***************************************************************************)
(* config.ts 36-54, 196-201: an Action's options.  Only the options that   *)
(* ACTIONS_CONFIG lists for the action type are set; an absent `delay` or  *)
(* `close` reads as 0 and an absent `end` as false.                        *)
(***************************************************************************)
Settings ==
    { st \in [ action : ActionTypes,
               block : BOOLEAN, reverse : BOOLEAN, end : BOOLEAN,
               delay : Delays, close : CloseTimes ] :
        /\ st.action # "tabs" => ~st.end /\ st.close = 0
        /\ st.action \in { "copy", "bookmark" } => st.delay = 0 }

NoSetting ==
    [ action |-> None, block |-> FALSE, reverse |-> FALSE, end |-> FALSE,
      delay |-> 0, close |-> 0 ]

NoTab == [id |-> 0, index |-> NoIndex]
Senders == { NoTab, [id |-> 7, index |-> 2] }

NoTimer == [due |-> NoTime, tabPosition |-> NoIndex]
NotHanded == [called |-> FALSE, action |-> None, list |-> <<>>]

OkTrue == "{ok:true}"
OkFalse == "{ok:false}"
ErrorResponse == "{error}"

\* The background worker before any request.
ActivateIdle ==
    /\ payload = [ hasUrls |-> FALSE, urls |-> <<>>, hasSetting |-> FALSE,
                   setting |-> NoSetting ]
    /\ sender = NoTab
    /\ hpc = "off"
    /\ response = None
    /\ handed = NotHanded
    /\ urls = <<>>
    /\ createInFlight = FALSE
    /\ nextTimer = NoTimer
    /\ removeTimers = 0
    /\ creations = <<>>
    /\ failed = FALSE
    /\ now = 0

(***************************************************************************)
(* linkclump.ts 50-52: the filter callback.  Reading .url of null throws.  *)
(***************************************************************************)
IsLink(link) ==
    /\ link.kind # "undefined"
    /\ IsString(link.url)
    /\ IsString(link.title)

FilterThrows(links) == \E i \in 1..Len(links) : links[i].kind = "null"

RECURSIVE FilterLinks(_)
FilterLinks(links) ==
    IF links = <<>> THEN <<>>
    ELSE IF IsLink(Head(links)) THEN <<Head(links)>> \o FilterLinks(Tail(links))
    ELSE FilterLinks(Tail(links))

(***************************************************************************)
(* Array.prototype.reverse (linkclump.ts 66).                              *)
(***************************************************************************)
RECURSIVE Reverse(_)
Reverse(s) == IF s = <<>> THEN <<>> ELSE Append(Reverse(Tail(s)), Head(s))

(***************************************************************************)
(* utils.ts 45-55: uniqueLinks, a filter that carries the set `seen`.      *)
(***************************************************************************)
RECURSIVE UniqueFrom(_, _)
UniqueFrom(links, seen) ==
    IF links = <<>> THEN <<>>
    ELSE IF Head(links).url \in seen THEN UniqueFrom(Tail(links), seen)
    ELSE <<Head(links)>> \o UniqueFrom(Tail(links), seen \cup { Head(links).url })

\* A deduplication that keeps the last occurrence of each URL.
uniqueLinksKeepLast(links) == Reverse(UniqueFrom(Reverse(links), {}))

uniqueLinks(links) == UniqueFrom(links, {})

(***************************************************************************)
(* linkclump.ts 50-67: the list the ACTIVATE handler dispatches.           *)
(***************************************************************************)
Deduplicated(p) ==
    IF p.setting.block THEN uniqueLinks(FilterLinks(p.urls)) ELSE FilterLinks(p.urls)

Dispatched(p) ==
    IF p.setting.reverse THEN Reverse(Deduplicated(p)) ELSE Deduplicated(p)

(***************************************************************************)
(* linkclump.ts 182-210: one call of openTabsSequentially, up to its await *)
(* of chrome.tabs.create.  The chain's array is shifted in place.          *)
(***************************************************************************)
CreateOptions(link, delay, openerTabId, tabPosition) ==
    [ url |-> link.url,
      active |-> FALSE,
      openerTabId |-> IF delay = 0 /\ openerTabId # 0 THEN openerTabId ELSE 0,
      index |-> tabPosition ]

OpenTabsSequentially(list, tabPosition) ==
    IF list = <<>>
    THEN UNCHANGED <<urls, createInFlight, creations>>
    ELSE /\ urls' = Tail(list)
         /\ createInFlight' = TRUE
         /\ creations' = Append(creations,
                [ options |-> CreateOptions(Head(list), payload.setting.delay,
                                            sender.id, tabPosition),
                  issuedAt |-> now, completedAt |-> NoTime, outcome |-> "pending" ])

(***************************************************************************)
(* linkclump.ts 45-85: the ACTIVATE handler up to its first await.         *)
(***************************************************************************)
Respond(r) == response' = r /\ hpc' = "responded"

OnActivate ==
    /\ hpc = "received"
    /\ UNCHANGED notAct
    /\ UNCHANGED <<payload, sender, urls, createInFlight, nextTimer,
                   removeTimers, creations, failed, now>>
    /\ IF ~payload.hasUrls \/ ~payload.hasSetting
       THEN Respond(OkFalse) /\ UNCHANGED handed
       ELSE IF FilterThrows(payload.urls)
       THEN Respond(ErrorResponse) /\ UNCHANGED handed
       ELSE IF Deduplicated(payload) = <<>>
       THEN Respond(OkTrue) /\ UNCHANGED handed
       ELSE /\ handed' = [ called |-> TRUE, action |-> payload.setting.action,
                           list |-> Dispatched(payload) ]
            /\ hpc' = payload.setting.action
            /\ UNCHANGED response

(***************************************************************************)
(* linkclump.ts 87-158: handleCopy, handleBookmark, handleWindow.  Every   *)
(* platform call they make is inside try/catch, so each returns normally   *)
(* whether the calls succeed or fail, and the handler answers {ok: true}.  *)
(***************************************************************************)
HandleCopy ==
    /\ hpc = "copy"
    /\ UNCHANGED notAct
    /\ Respond(OkTrue)
    /\ UNCHANGED <<payload, sender, handed, urls, createInFlight, nextTimer,
                   removeTimers, creations, failed, now>>

HandleBookmark ==
    /\ hpc = "bookmark"
    /\ UNCHANGED notAct
    /\ Respond(OkTrue)
    /\ UNCHANGED <<payload, sender, handed, urls, createInFlight, nextTimer,
                   removeTimers, creations, failed, now>>

HandleWindow ==
    /\ hpc = "window"
    /\ UNCHANGED notAct
    /\ Respond(OkTrue)
    /\ UNCHANGED <<payload, sender, handed, urls, createInFlight, nextTimer,
                   removeTimers, creations, failed, now>>

(***************************************************************************)
(* linkclump.ts 160-180: handleTabs.  Without a sender tab it returns at   *)
(* once; a failed chrome.tabs.get / chrome.windows.getCurrent is caught.   *)
(***************************************************************************)
\* The insertion position taken to be the sender tab's own index.
TabIndexOfSender == IF payload.setting.end THEN NoIndex ELSE sender.index

TabIndex == IF payload.setting.end THEN NoIndex ELSE sender.index + 1

HandleTabs ==
    /\ hpc = "tabs"
    /\ UNCHANGED notAct
    /\ UNCHANGED <<payload, sender, handed, nextTimer, removeTimers, failed, now>>
    /\ IF sender.id = 0
       THEN Respond(OkTrue) /\ UNCHANGED <<urls, createInFlight, creations>>
       ELSE /\ OpenTabsSequentially(handed.list, TabIndex)
            /\ hpc' = "awaitOpen"
            /\ UNCHANGED response

HandleTabsLookupFails ==
    /\ hpc = "tabs"
    /\ UNCHANGED notAct
    /\ sender.id # 0
    /\ failed' = TRUE
    /\ Respond(OkTrue)
    /\ UNCHANGED <<payload, sender, handed, urls, createInFlight, nextTimer,
                   removeTimers, creations, now>>

(***************************************************************************)
(* linkclump.ts 210-226: chrome.tabs.create has resolved; the auto-close   *)
(* timer and the timer that continues the chain are set.                   *)
(***************************************************************************)
LastCreation == creations[Len(creations)]

CreateResolves ==
    /\ createInFlight
    /\ UNCHANGED notAct
    /\ createInFlight' = FALSE
    /\ creations' = [creations EXCEPT ![Len(creations)] =
                        [@ EXCEPT !.completedAt = now, !.outcome = "created"]]
    /\ removeTimers' = IF payload.setting.close > 0 THEN removeTimers + 1
                       ELSE removeTimers
    /\ nextTimer' =
          IF Len(urls) > 0
          THEN [ due |-> now + payload.setting.delay,
                 tabPosition |-> IF LastCreation.options.index # NoIndex
                                 THEN LastCreation.options.index + 1 ELSE NoIndex ]
          ELSE NoTimer
    /\ IF hpc = "awaitOpen" THEN Respond(OkTrue) ELSE UNCHANGED <<hpc, response>>
    /\ UNCHANGED <<payload, sender, handed, urls, failed, now>>

(***************************************************************************)
(* chrome.tabs.create rejects: the first call's rejection is caught by     *)
(* handleTabs (177-179); a later call runs in a timer callback and its     *)
(* rejection is unhandled.  Either way no further timer is set.            *)
(***************************************************************************)
CreateRejects ==
    /\ createInFlight
    /\ UNCHANGED notAct
    /\ createInFlight' = FALSE
    /\ creations' = [creations EXCEPT ![Len(creations)] =
                        [@ EXCEPT !.completedAt = now, !.outcome = "rejected"]]
    /\ IF hpc = "awaitOpen" THEN Respond(OkTrue) ELSE UNCHANGED <<hpc, response>>
    /\ failed' = TRUE
    /\ UNCHANGED <<payload, sender, handed, urls, nextTimer, removeTimers, now>>

(***************************************************************************)
(* linkclump.ts 222-224: the chain's timer fires, never before it is due.  *)
(***************************************************************************)
TimerFires ==
    /\ nextTimer # NoTimer
    /\ UNCHANGED notAct
    /\ now >= nextTimer.due
    /\ nextTimer' = NoTimer
    /\ OpenTabsSequentially(urls, nextTimer.tabPosition)
    /\ UNCHANGED <<payload, sender, hpc, response, handed, removeTimers, failed, now>>

Tick ==
    /\ now < MaxTime
    /\ UNCHANGED notAct
    /\ createInFlight \/ nextTimer # NoTimer
    /\ now' = now + 1
    /\ UNCHANGED <<payload, sender, hpc, response, handed, urls, createInFlight,
                   nextTimer, removeTimers, creations, failed>>

(***************************************************************************)
(* ToggleSwitch.tsx 189-207, 240-257: sendToTab and sendToBackground.  A   *)
(* call creates a promise, arms a timer when opts.timeoutMs is truthy and  *)
(* hands the platform a callback.  The record of a call keeps the order in *)
(* which its timer and its callback ran (events) and how often its promise *)
(* changed state (settlements).                                            *)
(***************************************************************************)
Via == { "background", "tab" }
Messages == { "m1", "m2" }
TimeoutMs == { 0, 100 }
LastErrors == { None, "Could not establish connection" }
MessageTimeout == "Message timeout"

\* A platform that answers every request with the response to "m1"
ResponseToFirst(msg) == <<"echo", "m1">>

\* What the platform hands the callback of the request `msg`
ResponseTo(msg) == <<"echo", msg>>

Unsent ==
    [ phase |-> "unsent", via |-> None, msg |-> None, timeoutMs |-> 0,
      timer |-> "none", promise |-> "pending", value |-> <<>>,
      settlements |-> 0, events |-> <<>>, cbErr |-> None ]

SendIdle == calls = [ i \in 1..MaxCalls |-> Unsent ]

\* A settlement that also overrides a promise already settled.
SettleAlways(c, state, v) ==
    [ c EXCEPT !.promise = state, !.value = v, !.settlements = @ + 1 ]

\* resolve / reject of a promise: only a pending promise changes state.
Settle(c, state, v) ==
    IF c.promise = "pending"
    THEN [ c EXCEPT !.promise = state, !.value = v, !.settlements = @ + 1 ]
    ELSE c

Send(i, via, msg, t) ==
    /\ calls[i].phase = "unsent"
    /\ calls' = [ calls EXCEPT ![i] =
                    [ Unsent EXCEPT !.phase = "sent", !.via = via, !.msg = msg,
                                    !.timeoutMs = t,
                                    !.timer = IF t # 0 THEN "armed" ELSE "none" ] ]
    /\ UNCHANGED notSnd

\* lines 198 / 248: the timer's callback rejects with 'Message timeout'.
TimeoutFires(i) ==
    /\ calls[i].timer = "armed"
    /\ calls' = [ calls EXCEPT ![i] =
                    Settle([ @ EXCEPT !.timer = "fired",
                                      !.events = Append(@, "timer") ],
                           "rejected", <<MessageTimeout>>) ]
    /\ UNCHANGED notSnd

\* A clearTimeout that leaves the timer armed.
TimerAfterCallbackKept(c) == c.timer

\* lines 202 / 252: if (timer) clearTimeout(timer)
TimerAfterCallback(c) == IF c.timer = "armed" THEN "cleared" ELSE c.timer

\* lines 201-206 / 251-256: the platform calls back, once per call.
PlatformCallback(i, err) ==
    /\ calls[i].phase = "sent"
    /\ calls' = [ calls EXCEPT ![i] =
                    LET c == [ @ EXCEPT !.phase = "answered",
                                        !.timer = TimerAfterCallback(calls[i]),
                                        !.events = Append(@, "callback"),
                                        !.cbErr = err ]
                    IN IF err # None THEN Settle(c, "rejected", <<err>>)
                       ELSE Settle(c, "fulfilled", ResponseTo(c.msg)) ]
    /\ UNCHANGED notSnd

NextSend ==
    \/ \E i \in 1..MaxCalls, via \in Via, msg \in Messages, t \in TimeoutMs :
          Send(i, via, msg, t)
    \/ \E i \in 1..MaxCalls : TimeoutFires(i)
    \/ \E i \in 1..MaxCalls, err \in LastErrors : PlatformCallback(i, err)

\* C3: the promise of a call made with timeoutMs settles exactly once, by
\* whichever of its timer and the platform callback runs first: timer first,
\* it is rejected with 'Message timeout' and stays so when the callback comes
\* later; callback first, the timer is cancelled (it never fires) and the
\* promise is rejected with lastError's message when one is set and is
\* otherwise fulfilled with the response.
C3_FirstEventSettles ==
    \A i \in 1..MaxCalls :
        LET c == calls[i] IN
        /\ c.events = <<>> => c.promise = "pending" /\ c.settlements = 0
        /\ c.events # <<>> => c.settlements = 1
        /\ (c.events # <<>> /\ Head(c.events) = "timer") =>
              /\ c.timeoutMs # 0
              /\ c.promise = "rejected" /\ c.value = <<MessageTimeout>>
        /\ (c.events # <<>> /\ Head(c.events) = "callback") =>
              /\ c.events = <<"callback">>
              /\ c.timer = IF c.timeoutMs # 0 THEN "cleared" ELSE "none"
              /\ IF c.cbErr # None
                 THEN c.promise = "rejected" /\ c.value = <<c.cbErr>>
                 ELSE c.promise = "fulfilled" /\ c.value = ResponseTo(c.msg)

C3_Witness ==
    \E i \in 1..MaxCalls :
        /\ calls[i].events = <<"timer", "callback">>
        /\ calls[i].cbErr = None
        /\ calls[i].promise = "rejected"
        /\ calls[i].value = <<MessageTimeout>>

(***************************************************************************)
(* Values a handler can return, throw or reject with, described by what    *)
(* isErrorResponse and toErrorResponse inspect: typeof, null, instanceof    *)
(* Error, the `error` property and its `message`.  `code` tells a response  *)
(* that createErrorResponse built from one that was passed through.        *)
(***************************************************************************)
JsValue(t, isNull, inst, err, msg, code) ==
    [ t |-> t, isNull |-> isNull, inst |-> inst, err |-> err, msg |-> msg,
      code |-> code ]

PlainObject == JsValue("object", FALSE, FALSE, "absent", "absent", None)
Undefined == JsValue("undefined", FALSE, FALSE, "absent", "absent", None)
Null == JsValue("object", TRUE, FALSE, "absent", "absent", None)
AString == JsValue("string", FALSE, FALSE, "absent", "absent", None)
AnError == JsValue("object", FALSE, TRUE, "absent", "absent", None)
GivenErrorResponse == JsValue("object", FALSE, FALSE, "object", "string", "GIVEN")
ErrorIsNull == JsValue("object", FALSE, FALSE, "null", "absent", None)
ErrorIsString == JsValue("object", FALSE, FALSE, "string", "absent", None)
ErrorHasNoMessage == JsValue("object", FALSE, FALSE, "object", "absent", None)

Returnable == { PlainObject, Undefined }
Throwable ==
    { Undefined, Null, AString, AnError, GivenErrorResponse, ErrorIsNull,
      ErrorIsString, ErrorHasNoMessage }

\* utils.ts 62-70
createErrorResponse(code) ==
    JsValue("object", FALSE, FALSE, "object", "string", code)

\* utils.ts 75-83: the conjuncts up to typeof response.error === 'object'
ReachesMessage(v) ==
    /\ v.t = "object"
    /\ ~v.isNull
    /\ v.err # "absent"
    /\ v.err \in { "object", "null" }

\* utils.ts 81: reading .message of a null `error` throws a TypeError
isErrorResponseThrows(v) == ReachesMessage(v) /\ v.err = "null"

isErrorResponse(v) == ReachesMessage(v) /\ v.err = "object" /\ v.msg = "string"

\* utils.ts 88-98
toErrorResponseThrows(v) == isErrorResponseThrows(v)

toErrorResponse(v) ==
    IF isErrorResponse(v) THEN v
    ELSE IF v.inst THEN createErrorResponse("error.name")
    ELSE createErrorResponse("UNKNOWN_ERROR")

(***************************************************************************)
(* ToggleSwitch.tsx 144-186 and 225-237: the listener that on(type,        *)
(* handler) installs.  The wrapper answers UNHANDLED for another type; the *)
(* listener sends the handler's value, or the normalised failure.          *)
(***************************************************************************)
MessageTypes == { "PING", "GET_CONFIG" }
Incoming == MessageTypes \cup { None }

Behaviours ==
    [ mode : { "return" }, value : Returnable ]
      \cup [ mode : { "throw" }, value : Throwable ]
      \cup [ mode : { "promise" }, value : { Undefined } ]

Undelivered ==
    [ phase |-> "none", type |-> None, behaviour |-> [ mode |-> None, value |-> Undefined ],
      handlerCalls |-> 0, responses |-> <<>>, returned |-> None,
      outcome |-> [ mode |-> None, value |-> Undefined ] ]

BusIdle == onType = None /\ deliveries = <<>>

\* The catch branches (lines 162, 175-178): sendResponse(toErrorResponse(e)).
\* When toErrorResponse itself throws, nothing is sent.
RespondError(d, e) ==
    IF toErrorResponseThrows(e) THEN d
    ELSE [ d EXCEPT !.responses = Append(@, toErrorResponse(e)) ]

Listener(d, type, b) ==
    LET d0 == [ d EXCEPT !.type = type, !.behaviour = b ] IN
    IF type # onType
    THEN \* the wrapper returns UNHANDLED: sync branch, return false
         [ d0 EXCEPT !.phase = "done", !.returned = "false" ]
    ELSE LET d1 == [ d0 EXCEPT !.handlerCalls = @ + 1, !.outcome = b ] IN
         CASE b.mode = "promise" ->
                [ d1 EXCEPT !.phase = "pending", !.returned = "true" ]
           [] b.mode = "return" ->
                [ d1 EXCEPT !.phase = "done", !.returned = "true",
                            !.responses = Append(@, b.value) ]
           [] b.mode = "throw" ->
                IF toErrorResponseThrows(b.value)
                THEN [ d1 EXCEPT !.phase = "done", !.returned = "threw" ]
                ELSE [ RespondError(d1, b.value) EXCEPT
                          !.phase = "done", !.returned = "true" ]

Deliver(type, b) ==
    /\ Len(deliveries) < MaxDeliveries
    /\ deliveries' = Append(deliveries, Listener(Undelivered, type, b))
    /\ UNCHANGED onType
    /\ UNCHANGED notBus

\* lines 158-161: the handler's promise resolves.
HandlerResolves(i, v) ==
    /\ deliveries[i].phase = "pending"
    /\ deliveries' = [ deliveries EXCEPT ![i] =
                         [ @ EXCEPT !.phase = "done",
                                    !.outcome = [ mode |-> "resolve", value |-> v ],
                                    !.responses = Append(@, v) ] ]
    /\ UNCHANGED onType
    /\ UNCHANGED notBus

\* line 162: the handler's promise rejects.
HandlerRejects(i, e) ==
    /\ deliveries[i].phase = "pending"
    /\ deliveries' = [ deliveries EXCEPT ![i] =
                         RespondError([ @ EXCEPT !.phase = "done",
                                          !.outcome = [ mode |-> "reject", value |-> e ] ],
                                      e) ]
    /\ UNCHANGED onType
    /\ UNCHANGED notBus

NextBus ==
    \/ \E type \in Incoming, b \in Behaviours : Deliver(type, b)
    \/ \E i \in 1..Len(deliveries), v \in Returnable : HandlerResolves(i, v)
    \/ \E i \in 1..Len(deliveries), e \in Throwable : HandlerRejects(i, e)

(***************************************************************************)
(* Claims about the listener.                                              *)
(***************************************************************************)
Finished(d) == d.phase = "done"

\* C4: a listener registered for type T that receives a message of another
\* type never calls the handler, never calls sendResponse and returns false;
\* for a message of type T it calls the handler exactly once and returns true.
C4_DispatchByType ==
    \A i \in 1..Len(deliveries) :
        LET d == deliveries[i] IN
        IF d.type # onType
        THEN d.handlerCalls = 0 /\ d.responses = <<>> /\ d.returned = "false"
        ELSE d.handlerCalls = 1 /\ d.returned = "true"

\* The same, for every handler that does not throw a value on which
\* toErrorResponse itself throws.
C4_ExceptUnnormalisable ==
    \A i \in 1..Len(deliveries) :
        LET d == deliveries[i] IN
        IF d.type # onType
        THEN d.handlerCalls = 0 /\ d.responses = <<>> /\ d.returned = "false"
        ELSE \/ d.behaviour.mode = "throw" /\ toErrorResponseThrows(d.behaviour.value)
             \/ d.handlerCalls = 1 /\ d.returned = "true"

\* The response the bus owes for the way the handler ended.
Owed(outcome) ==
    IF outcome.mode \in { "return", "resolve" } THEN outcome.value
    ELSE IF isErrorResponse(outcome.value) THEN outcome.value
    ELSE IF outcome.value.inst THEN createErrorResponse("error.name")
    ELSE createErrorResponse("UNKNOWN_ERROR")

\* C5: for every message of the registered type whose handler has returned,
\* thrown, or whose promise has settled, sendResponse has been called exactly
\* once: with the handler's value, or with the ErrorResponse for what it
\* threw or rejected with, whatever that value is.
C5_OneResponse ==
    \A i \in 1..Len(deliveries) :
        LET d == deliveries[i] IN
        (d.type = onType /\ Finished(d)) => d.responses = << Owed(d.outcome) >>

\* The same, for every failure value on which toErrorResponse does not throw.
C5_ExceptUnnormalisable ==
    \A i \in 1..Len(deliveries) :
        LET d == deliveries[i] IN
        (d.type = onType /\ Finished(d) /\ ~toErrorResponseThrows(d.outcome.value))
            => d.responses = << Owed(d.outcome) >>

Payloads ==
    { p \in [ hasUrls : BOOLEAN, urls : SeqsUpTo(Entries, MaxLinks),
              hasSetting : BOOLEAN, setting : Settings \cup { NoSetting } ] :
        /\ ~p.hasUrls => p.urls = <<>>
        /\ p.hasSetting <=> p.setting # NoSetting }

NextActivate ==
    \/ OnActivate
    \/ HandleCopy
    \/ HandleBookmark
    \/ HandleWindow
    \/ HandleTabs
    \/ HandleTabsLookupFails
    \/ CreateResolves
    \/ CreateRejects
    \/ TimerFires
    \/ Tick

(***************************************************************************)
(* What the claims about the ACTIVATE handler speak of, stated on the      *)
(* request alone.                                                          *)
(***************************************************************************)
WellFormed(e) == e.kind = "object" /\ IsString(e.url) /\ IsString(e.title)

\* The entries of s from position i on whose URL occurs at no earlier
\* position of s, in order.
RECURSIVE FirstFrom(_, _)
FirstFrom(s, i) ==
    IF i > Len(s) THEN <<>>
    ELSE (IF \A j \in 1..(i - 1) : s[j].url # s[i].url THEN <<s[i]>> ELSE <<>>)
         \o FirstFrom(s, i + 1)

WellFormedEntries(s) == SelectSeq(s, WellFormed)

FirstOccurrences(s) == FirstFrom(s, 1)

Backwards(s) == [ i \in 1..Len(s) |-> s[Len(s) + 1 - i] ]

ExpectedList ==
    LET wf == WellFormedEntries(payload.urls)
        dd == IF payload.setting.block THEN FirstOccurrences(wf) ELSE wf
    IN IF payload.setting.reverse THEN Backwards(dd) ELSE dd

TabsActivation == handed.called /\ handed.action = "tabs" /\ sender.id # 0

ExpectedIndex(k) == IF payload.setting.end THEN NoIndex ELSE sender.index + k

ChainAtRest == hpc = "responded" /\ ~createInFlight /\ nextTimer = NoTimer

\* C2: one 'tabs' activation with n links from a tab at index i issues its
\* tab creations in link-list order, the k-th inactive and at index i + k
\* (without an index when options.end is set); creation k + 1 is issued only
\* after creation k has completed and options.delay seconds have passed
\* since; and once the chain has run to its end, every platform call having
\* succeeded, exactly n creations have been issued.
C2_SequentialTabs ==
    /\ creations # <<>> => TabsActivation
    /\ TabsActivation =>
          /\ Len(creations) <= Len(handed.list)
          /\ \A k \in 1..Len(creations) :
                /\ creations[k].options.url = handed.list[k].url
                /\ creations[k].options.active = FALSE
                /\ creations[k].options.index = ExpectedIndex(k)
          /\ \A k \in 1..(Len(creations) - 1) :
                /\ creations[k].outcome = "created"
                /\ creations[k + 1].issuedAt >=
                      creations[k].completedAt + payload.setting.delay
          /\ (ChainAtRest /\ ~failed) => Len(creations) = Len(handed.list)

C2_Witness ==
    /\ TabsActivation /\ ChainAtRest /\ ~failed
    /\ ~payload.setting.end /\ payload.setting.delay = 1
    /\ sender.index = 2
    /\ Len(creations) = 3
    /\ creations[3].options.index = 5
    /\ creations[3].issuedAt = 2

(***************************************************************************)
(* Stored values.  chrome.storage holds JSON values; the model keeps the   *)
(* type of a value and what the code inspects of it.  A string is the      *)
(* sequence of its characters, so that split, trim and parseInt are        *)
(* computed rather than assumed.                                           *)
(***************************************************************************)
NoContent == [array |-> FALSE, hasActions |-> FALSE, actions |-> <<>>]

Absent == [type |-> "undefined", str |-> <<>>, num |-> 0, obj |-> NoContent]
NullValue == [type |-> "null", str |-> <<>>, num |-> 0, obj |-> NoContent]
Str(s) == [type |-> "string", str |-> s, num |-> 0, obj |-> NoContent]
Num(n) == [type |-> "number", str |-> <<>>, num |-> n, obj |-> NoContent]
Obj(c) == [type |-> "object", str |-> <<>>, num |-> 0, obj |-> c]

\* typeof v
TypeOf(v) == IF v.type = "null" THEN "object" ELSE v.type

\* ToBoolean(v), as in `!ver`, `raw &&`, `x || null`
Truthy(v) ==
    CASE v.type = "undefined" -> FALSE
      [] v.type = "null" -> FALSE
      [] v.type = "string" -> v.str # <<>>
      [] v.type = "number" -> v.num # 0
      [] OTHER -> TRUE

\* s.split(sep) for a one-character separator
RECURSIVE Split(_, _)
Split(s, sep) ==
    IF \E i \in 1..Len(s) : s[i] = sep
    THEN LET i == CHOOSE i \in 1..Len(s) :
                      s[i] = sep /\ \A j \in 1..(i - 1) : s[j] # sep
         IN  <<SubSeq(s, 1, i - 1)>> \o Split(SubSeq(s, i + 1, Len(s)), sep)
    ELSE <<s>>

RECURSIVE TrimStart(_)
TrimStart(s) == IF s # <<>> /\ Head(s) = " " THEN TrimStart(Tail(s)) ELSE s

RECURSIVE TrimEnd(_)
TrimEnd(s) ==
    IF s # <<>> /\ s[Len(s)] = " " THEN TrimEnd(SubSeq(s, 1, Len(s) - 1)) ELSE s

\* s.trim()
Trim(s) == TrimEnd(TrimStart(s))

(***************************************************************************)
(* Settings records (shared/config.ts).  Of an action the model keeps its  *)
(* `options.ignore` tuple [mode, ...keywords]; an entry of `actions` may   *)
(* also be null in a damaged record.                                       *)
(***************************************************************************)
CURRENT_VERSION == <<"2">>

Ignore(mode, rest) == [has |-> TRUE, mode |-> mode, rest |-> rest]
NoIgnore == [has |-> FALSE, mode |-> 0, rest |-> <<>>]
Action(ignore) == [isNull |-> FALSE, ignore |-> ignore]
NullAction == [isNull |-> TRUE, ignore |-> NoIgnore]
SettingsOf(actions) ==
    Obj([array |-> FALSE, hasActions |-> TRUE, actions |-> actions])
EmptyObject == Obj(NoContent)
EmptyArray == Obj([NoContent EXCEPT !.array = TRUE])

DEFAULT_SETTINGS == SettingsOf(<<Action(Ignore(0, <<>>))>>)

\* Comma separated keyword strings of the legacy `ignore` format.
KeywordStrings ==
    { <<"a">>, <<"a", ",", " ", "b">>, <<" ", ",">> }

LegacySettings ==
    { SettingsOf(<<Action(Ignore(1, <<k>>))>>) : k \in KeywordStrings }

CustomSettings == SettingsOf(<<Action(Ignore(1, << <<"a">>, <<"b">> >>))>>)

\* What a caller passes to save()
SavedSettings ==
    { DEFAULT_SETTINGS, CustomSettings,
      SettingsOf(<<Action(Ignore(1, << <<"a", ",", " ", "b">> >>))>>) }

\* What the `settings` key may hold when the manager is first used
StoredSettings ==
    { Absent, NullValue, Str(<<"x">>), EmptyArray, EmptyObject,
      DEFAULT_SETTINGS, CustomSettings, SettingsOf(<<Action(NoIgnore)>>),
      SettingsOf(<<NullAction>>) } \cup LegacySettings

\* What the `version` key may hold when the manager is first used
StoredVersions ==
    { Absent, Num(2), Str(<<>>), Str(<<"1">>), Str(CURRENT_VERSION) }

\* keywordsStr.split(',').map(trim).filter(s => s !== '')
Keywords(keywordsStr) ==
    SelectSeq([ i \in 1..Len(Split(keywordsStr, ",")) |->
                    Trim(Split(keywordsStr, ",")[i]) ],
              LAMBDA s : s # <<>>)

\* The same rewrite with a test for any array that has a string after the mode
migrateActionAnyLength(action) ==
    IF action.ignore.has /\ Len(action.ignore.rest) >= 1
    THEN [action EXCEPT !.ignore.rest = Keywords(action.ignore.rest[1])]
    ELSE action

\* if (ignore.length === 2 && typeof ignore[1] === 'string') { ... }
migrateAction(action) ==
    IF action.ignore.has /\ Len(action.ignore.rest) = 1
    THEN [action EXCEPT !.ignore.rest = Keywords(action.ignore.rest[1])]
    ELSE action

\* MySettingManager.migrate throws when an action entry is null
migrateThrows(currentSettings) ==
    /\ currentSettings.obj.hasActions
    /\ \E i \in 1..Len(currentSettings.obj.actions) :
           currentSettings.obj.actions[i].isNull

\* MySettingManager.migrate
migrate(currentSettings) ==
    IF ~currentSettings.obj.hasActions
    THEN Obj([currentSettings.obj EXCEPT !.array = FALSE])
    ELSE SettingsOf([ i \in 1..Len(currentSettings.obj.actions) |->
                          migrateAction(currentSettings.obj.actions[i]) ])

(***************************************************************************)
(* chrome.storage areas and the kv wrapper (typed storage).                *)
(***************************************************************************)
Keys == {"settings", "version", "other"}
EmptyStore == [ k \in Keys |-> Absent ]

\* A set that replaced the area's contents by `items`
ReplaceItems(store, items) ==
    [ k \in Keys |-> IF k \in DOMAIN items THEN items[k] ELSE Absent ]

\* bucket.set(items): only the keys of `items` change
ApplyItems(store, items) ==
    [ k \in Keys |-> IF k \in DOMAIN items THEN items[k] ELSE store[k] ]

\* A write that also stamps the version, as init() does
kvSetStamped(key, value) ==
    [ k \in {key, "version"} |->
          IF k = key THEN value ELSE Str(CURRENT_VERSION) ]

\* kv.set(area, key, value) hands { [key]: value } to bucket.set
kvSet(key, value) == [ k \in {key} |-> value ]

Write(area, items) == [area |-> area, items |-> items]

StoreIdle ==
    /\ syncStore = EmptyStore
    /\ localStore = EmptyStore
    /\ written = <<>>

(***************************************************************************)
(* SettingManager: load / save / reset / update (versioned variant) and    *)
(* load / save / reset (centralized variant).  One step per storage call.  *)
(***************************************************************************)
Variants == {"versioned", "centralized"}

Ops(v) == IF v = "versioned"
          THEN {"load", "save", "reset", "update"}
          ELSE {"load", "save", "reset"}

Pending == [kind |-> "pending", value |-> Absent]
Resolved(value) == [kind |-> "resolved", value |-> value]
Rejected == [kind |-> "rejected", value |-> Absent]

NotRunning ==
    [op |-> None, arg |-> Absent, pc |-> "idle", raw |-> Absent,
     loaded |-> Absent, thrown |-> 0]
NoPrevious == [op |-> None, outcome |-> "pending"]

SettingIdle ==
    /\ variant = "versioned"
    /\ running = NotRunning
    /\ settled = Pending
    /\ before = EmptyStore
    /\ previous = NoPrevious

\* The same test without the `!ver` disjunct
MustInitUnlessString(ver) == TypeOf(ver) # "string"

\* if (!ver || typeof ver !== 'string')
MustInit(ver) == ~Truthy(ver) \/ TypeOf(ver) # "string"

\* if (raw && typeof raw === 'object')
Accepted(raw) == Truthy(raw) /\ TypeOf(raw) = "object"

\* isInit(): typeof ver === 'string'
isInit(ver) == TypeOf(ver) = "string"

\* isLatest() if it compared nothing
isLatestNever(ver) == FALSE

\* isLatest(): ver === this.currentVersion
isLatest(ver) == ver = Str(CURRENT_VERSION)

\* What init() writes
InitItems(v) ==
    IF v = "versioned"
    THEN [settings |-> DEFAULT_SETTINGS, version |-> Str(CURRENT_VERSION)]
    ELSE kvSet("settings", DEFAULT_SETTINGS)

FirstPc(op) ==
    CASE op = "load" -> "readSettings"
      [] op = "save" -> "set"
      [] op = "reset" -> "resetInit"
      [] op = "update" -> "isInit"

\* A public method is called; the manager handles one call at a time.
Call(op, arg) ==
    /\ running.pc \in {"idle", "done"}
    /\ op \in Ops(variant)
    /\ running' = [NotRunning EXCEPT !.op = op, !.arg = arg, !.pc = FirstPc(op)]
    /\ settled' = Pending
    /\ before' = syncStore
    /\ previous' = [op |-> running.op, outcome |-> settled.kind]
    /\ written' = <<>>
    /\ UNCHANGED <<syncStore, localStore, variant>>

Resolve(r, value) ==
    /\ running' = [r EXCEPT !.pc = "done"]
    /\ settled' = Resolved(value)

Reject(r) ==
    /\ running' = [r EXCEPT !.pc = "done"]
    /\ settled' = Rejected

\* load() returns `value`: to its caller, or to update(), which migrates it
LoadReturns(r, value) ==
    IF r.op = "load"
    THEN Resolve(r, value)
    ELSE IF migrateThrows(value)
         THEN Reject(r)
         ELSE /\ running' = [r EXCEPT !.pc = "setAll", !.loaded = value]
              /\ settled' = settled

SyncWrite(items) ==
    /\ syncStore' = ApplyItems(syncStore, items)
    /\ written' = Append(written, Write("sync", items))

\* const raw = await kv.get('sync', 'settings')
ReadSettings ==
    /\ running.pc = "readSettings"
    /\ LET r == [running EXCEPT !.raw = syncStore.settings]
       IN  IF variant = "versioned"
           THEN /\ running' = [r EXCEPT !.pc = "readVersion"]
                /\ settled' = settled
           ELSE IF Accepted(r.raw)
                THEN LoadReturns(r, r.raw)
                ELSE /\ running' = [r EXCEPT !.pc = "init"]
                     /\ settled' = settled
    /\ UNCHANGED <<syncStore, localStore, written, variant, before, previous>>

\* const ver = await kv.get('sync', 'version'), and the two tests on it
ReadVersion ==
    /\ running.pc = "readVersion"
    /\ IF MustInit(syncStore.version)
       THEN /\ running' = [running EXCEPT !.pc = "init"]
            /\ settled' = settled
       ELSE IF Accepted(running.raw)
            THEN LoadReturns(running, running.raw)
            ELSE /\ running' = [running EXCEPT !.pc = "init"]
                 /\ settled' = settled
    /\ UNCHANGED <<syncStore, localStore, written, variant, before, previous>>

InitPcs == {"init", "catchInit", "resetInit", "updateInit"}

\* init(): one write of the defaults (and of the version), returns them
InitWrites ==
    /\ running.pc \in InitPcs
    /\ SyncWrite(InitItems(variant))
    /\ CASE running.pc = "resetInit" -> Resolve(running, DEFAULT_SETTINGS)
         [] running.pc = "updateInit" -> Resolve(running, Absent)
         [] OTHER -> LoadReturns(running, DEFAULT_SETTINGS)
    /\ UNCHANGED <<localStore, variant, before, previous>>

\* save(settings)
Save ==
    /\ running.pc = "set"
    /\ SyncWrite(kvSet("settings", running.arg))
    /\ Resolve(running, Absent)
    /\ UNCHANGED <<localStore, variant, before, previous>>

\* update(): const initialized = await this.isInit()
UpdateIsInit ==
    /\ running.pc = "isInit"
    /\ running' = [running EXCEPT
                      !.pc = IF isInit(syncStore.version)
                             THEN "isLatest" ELSE "updateInit"]
    /\ UNCHANGED <<syncStore, localStore, written, variant, settled,
                   before, previous>>

\* update(): const latest = await this.isLatest()
UpdateIsLatest ==
    /\ running.pc = "isLatest"
    /\ IF isLatest(syncStore.version)
       THEN Resolve(running, Absent)
       ELSE /\ running' = [running EXCEPT !.pc = "readSettings"]
            /\ settled' = settled
    /\ UNCHANGED <<syncStore, localStore, written, variant, before, previous>>

\* update(): the combined write of the migrated settings and the version
UpdateWrites ==
    /\ running.pc = "setAll"
    /\ SyncWrite([settings |-> migrate(running.loaded),
                  version |-> Str(CURRENT_VERSION)])
    /\ Resolve(running, Absent)
    /\ UNCHANGED <<localStore, variant, before, previous>>

\* A storage read throws (the platform call throws synchronously)
ReadThrows ==
    /\ running.pc \in {"readSettings", "readVersion", "isInit", "isLatest"}
    /\ LET r == [running EXCEPT !.thrown = @ + 1]
       IN  IF running.pc \in {"readSettings", "readVersion"}
           THEN /\ running' = [r EXCEPT !.pc = "catchInit"]
                /\ settled' = settled
           ELSE Reject(r)
    /\ UNCHANGED <<syncStore, localStore, written, variant, before, previous>>

\* A storage write throws; nothing is stored
WriteThrows ==
    /\ running.pc \in InitPcs \cup {"set", "setAll"}
    /\ LET r == [running EXCEPT !.thrown = @ + 1]
       IN  IF running.pc = "init"
           THEN /\ running' = [r EXCEPT !.pc = "catchInit"]
                /\ settled' = settled
           ELSE Reject(r)
    /\ UNCHANGED <<syncStore, localStore, written, variant, before, previous>>

NextSetting ==
    \/ \E op \in {"load", "reset", "update"} : Call(op, Absent) /\ UNCHANGED notSet
    \/ \E s \in SavedSettings : Call("save", s) /\ UNCHANGED notSet
    \/ ReadSettings /\ UNCHANGED notSet
    \/ ReadVersion /\ UNCHANGED notSet
    \/ InitWrites /\ UNCHANGED notSet
    \/ Save /\ UNCHANGED notSet
    \/ UpdateIsInit /\ UNCHANGED notSet
    \/ UpdateIsLatest /\ UNCHANGED notSet
    \/ UpdateWrites /\ UNCHANGED notSet

NextSettingFault ==
    \/ NextSetting
    \/ ReadThrows /\ UNCHANGED notSet
    \/ WriteThrows /\ UNCHANGED notSet

(***************************************************************************)
(* Settings manager: properties.                                           *)
(***************************************************************************)
Completed(op) == running.op = op /\ running.pc = "done"

InitWrite ==
    Write("sync", [settings |-> DEFAULT_SETTINGS,
                   version |-> Str(CURRENT_VERSION)])

\* load() wrote the defaults with the current version and returned them
Initialised ==
    /\ written = <<InitWrite>>
    /\ syncStore = ApplyItems(before, InitWrite.items)
    /\ settled = Resolved(DEFAULT_SETTINGS)

\* load() returned what was stored and wrote nothing
ReturnedStored ==
    /\ written = <<>>
    /\ syncStore = before
    /\ settled = Resolved(before.settings)

\* C6, as the claim states it: the versioned load() initialises exactly
\* when the stored version is absent or not a string, or the stored
\* settings are not an object; otherwise it returns the stored settings
\* and writes nothing.
C6_LoadAsStated ==
    (variant = "versioned" /\ Completed("load")) =>
        IF \/ before.version = Absent
           \/ before.version.type # "string"
           \/ before.settings.type # "object"
        THEN Initialised
        ELSE ReturnedStored

\* C6: the versioned load() writes the defaults together with the current
\* version and returns the defaults when the stored version is absent, not
\* a string or the empty string, or when the stored settings are not an
\* object (also when only the version is missing); otherwise it returns the
\* stored settings unchanged and performs no write.
C6_LoadInitialisesOrReturns ==
    (variant = "versioned" /\ Completed("load")) =>
        IF \/ before.version = Absent
           \/ before.version.type # "string"
           \/ before.version = Str(<<>>)
           \/ before.settings.type # "object"
        THEN Initialised
        ELSE ReturnedStored

C6_Witness ==
    /\ variant = "versioned" /\ Completed("load")
    /\ before.version = Absent
    /\ before.settings = CustomSettings
    /\ Initialised
    /\ syncStore.settings = DEFAULT_SETTINGS

\* C7: a load() during which a storage call threw resolves with the
\* defaults after writing them; it never rejects.
C7_LoadNeverRejects ==
    (Completed("load") /\ running.thrown > 0) =>
        /\ settled = Resolved(DEFAULT_SETTINGS)
        /\ written # <<>>
        /\ written[Len(written)] = Write("sync", InitItems(variant))

\* A load() rejects only when the init() of its catch block threw as well.
LoadRejectsOnlyInCatch ==
    (Completed("load") /\ settled.kind = "rejected") => running.thrown >= 2

\* A load() that met an exception and did not reject fell back to the
\* defaults after writing them.
LoadFallsBackUnlessRejected ==
    (Completed("load") /\ running.thrown > 0 /\ settled.kind # "rejected") =>
        /\ settled = Resolved(DEFAULT_SETTINGS)
        /\ written # <<>>
        /\ written[Len(written)] = Write("sync", InitItems(variant))
        /\ syncStore.settings = DEFAULT_SETTINGS

\* What the load() inside update() hands to migrate()
LoadedBy(store) ==
    IF MustInit(store.version) \/ ~Accepted(store.settings)
    THEN DEFAULT_SETTINGS
    ELSE store.settings

\* C8: a completed update() wrote the defaults and the current version in
\* one write when no version (no string) was stored; wrote migrate(loaded
\* settings) and the current version together in one write when the stored
\* version differed from the current one, preceded at most by the write of
\* a load() that had to initialise; wrote nothing when the stored version
\* was current.  Afterwards the stored version is the current one, and an
\* update() that directly follows a completed update() writes nothing.
C8_UpdateReconciles ==
    (Completed("update") /\ settled.kind = "resolved") =>
        /\ before.version.type # "string" => written = <<InitWrite>>
        /\ (before.version.type = "string"
              /\ before.version # Str(CURRENT_VERSION)) =>
              /\ written # <<>>
              /\ written[Len(written)] =
                     Write("sync", [settings |-> migrate(LoadedBy(before)),
                                    version |-> Str(CURRENT_VERSION)])
              /\ \A k \in 1..(Len(written) - 1) :
                     /\ k = 1
                     /\ written[k] = InitWrite
                     /\ LoadedBy(before) = DEFAULT_SETTINGS
        /\ before.version = Str(CURRENT_VERSION) => written = <<>>
        /\ syncStore.version = Str(CURRENT_VERSION)
        /\ previous = [op |-> "update", outcome |-> "resolved"] =>
              written = <<>>

C8_Witness ==
    /\ Completed("update") /\ settled.kind = "resolved"
    /\ before.version = Str(<<"1">>)
    /\ before.settings =
           SettingsOf(<<Action(Ignore(1, << <<"a", ",", " ", "b">> >>))>>)
    /\ Len(written) = 1
    /\ syncStore.settings = CustomSettings
    /\ syncStore.version = Str(CURRENT_VERSION)

\* C9: save(s) performs one write whose only key is `settings`, with value
\* s; the stored version and every other key keep their values, in both
\* variants of the manager.
C9_SaveWritesOnlySettings ==
    Completed("save") =>
        /\ Len(written) = 1
        /\ written[1].area = "sync"
        /\ DOMAIN written[1].items = {"settings"}
        /\ written[1].items["settings"] = running.arg
        /\ syncStore.settings = running.arg
        /\ syncStore.version = before.version
        /\ syncStore.other = before.other
        /\ localStore = EmptyStore

C9_Witness ==
    /\ Completed("save")
    /\ variant = "centralized"
    /\ before.version = Str(<<"1">>)
    /\ before.other = Str(<<"o">>)
    /\ before.settings # running.arg
    /\ syncStore.settings = running.arg
    /\ syncStore.version = Str(<<"1">>)

(***************************************************************************)
(* Migration runner (runMigrations) over chrome.storage.sync and .local.   *)
(***************************************************************************)
NaN == 0 - 1

Digits == {"0", "1", "2", "3", "4", "5", "6", "7", "8", "9"}

DigitValue(c) ==
    CASE c = "0" -> 0 [] c = "1" -> 1 [] c = "2" -> 2 [] c = "3" -> 3
      [] c = "4" -> 4 [] c = "5" -> 5 [] c = "6" -> 6 [] c = "7" -> 7
      [] c = "8" -> 8 [] c = "9" -> 9

RECURSIVE ParseDigits(_, _, _)
ParseDigits(s, acc, seen) ==
    IF s = <<>> \/ Head(s) \notin Digits
    THEN IF seen THEN acc ELSE NaN
    ELSE ParseDigits(Tail(s), acc * 10 + DigitValue(Head(s)), TRUE)

\* A parseInt that reads one digit only
parseIntFirstDigit(s) ==
    ParseDigits(IF TrimStart(s) = <<>> THEN <<>> ELSE <<Head(TrimStart(s))>>,
                0, FALSE)

\* parseInt(s, 10) of an unsigned string: the leading digits, or NaN
parseInt(s) == ParseDigits(TrimStart(s), 0, FALSE)

\* n || 0
OrZero(n) == IF n = NaN \/ n = 0 THEN 0 ELSE n

\* String(v) of a stored version that is not a string
String(v) ==
    CASE v.type = "number" /\ v.num \in 0..9 ->
             <<CHOOSE c \in Digits : DigitValue(c) = v.num>>
      [] v.type = "string" -> v.str
      [] OTHER -> <<"?">>

\* parseVersion("1.2.3") = <<1, 2, 3>>
parseVersion(version) ==
    LET parts == Split(IF TypeOf(version) # "string"
                       THEN String(version) ELSE version.str, ".")
    IN  [ i \in 1..Len(parts) |-> OrZero(parseInt(parts[i])) ]

RECURSIVE CompareFrom(_, _, _)
CompareFrom(aParts, bParts, i) ==
    IF i > Len(aParts) /\ i > Len(bParts)
    THEN 0
    ELSE LET aVal == IF i <= Len(aParts) THEN aParts[i] ELSE 0
             bVal == IF i <= Len(bParts) THEN bParts[i] ELSE 0
         IN  IF aVal < bVal THEN 0 - 1
             ELSE IF aVal > bVal THEN 1
             ELSE CompareFrom(aParts, bParts, i + 1)

\* compareVersions(a, b): -1, 0 or 1
compareVersions(a, b) == CompareFrom(parseVersion(a), parseVersion(b), 1)

MaxMigrations == 2
MaxRuns == 2

\* Version strings of manifests, migrations and stores
Versions ==
    { <<"1">>, <<"1", ".", "0">>, <<"1", ".", "2">>, <<"2">> }

\* What a migration's migrate(context) does: return nothing, return a patch
\* for one area, or throw
MigrationBehaviours == {"void", "sync", "local", "throws"}

Migrations ==
    UNION { [ 1..n -> [version : {Str(v) : v \in Versions},
                       does : MigrationBehaviours] ] : n \in 0..MaxMigrations }

\* The patch migration i returns: it marks the key `other` of its area
PatchOf(i) == kvSet("other", Str(<<"m", CHOOSE c \in Digits : DigitValue(c) = i>>))

NotStarted ==
    [n |-> 0, pc |-> "idle", storedVersion |-> NullValue, i |-> 0,
     executed |-> <<>>, outcome |-> "pending"]
NoRun ==
    [outcome |-> "pending", executed |-> <<>>, sync |-> EmptyStore,
     local |-> EmptyStore]

MigrationIdle ==
    /\ manifest = Str(<<>>)
    /\ migrations = <<>>
    /\ run = NotStarted
    /\ lastRun = NoRun

\* getStoredVersion() if it never found a version
getStoredVersionNone(store) == NullValue

\* getStoredVersion(): (await kv.get('sync', 'version')) || null
getStoredVersion(store) ==
    IF Truthy(store.version) THEN store.version ELSE NullValue

\* The branches without the two downgrade checks
BranchWithoutDowngrade(storedVersion) ==
    IF Len(migrations) = 0
    THEN IF ~Truthy(storedVersion)
            \/ compareVersions(storedVersion, manifest) # 0
         THEN "setVersion"
         ELSE "done"
    ELSE IF ~Truthy(storedVersion) THEN "fresh"
         ELSE IF compareVersions(storedVersion, manifest) = 0 THEN "done"
         ELSE "upgrade"

\* Where runMigrations goes once it has the stored version
Branch(storedVersion) ==
    IF Len(migrations) = 0
    THEN IF Truthy(storedVersion)
            /\ compareVersions(storedVersion, manifest) > 0
         THEN "done"
         ELSE IF ~Truthy(storedVersion)
                 \/ compareVersions(storedVersion, manifest) # 0
              THEN "setVersion"
              ELSE "done"
    ELSE IF ~Truthy(storedVersion) THEN "fresh"
         ELSE IF compareVersions(storedVersion, manifest) = 0 THEN "done"
         ELSE IF compareVersions(storedVersion, manifest) > 0 THEN "done"
         ELSE "upgrade"

\* runMigrations() is called and reads the stored version
RunMigrations ==
    /\ run.pc \in {"idle", "done"}
    /\ run.n < MaxRuns
    /\ LET storedVersion == getStoredVersion(syncStore)
           pc == Branch(storedVersion)
       IN  run' = [n |-> run.n + 1, pc |-> pc,
                   storedVersion |-> storedVersion, i |-> 1,
                   executed |-> <<>>,
                   outcome |-> IF pc = "done" THEN "resolved" ELSE "pending"]
    /\ lastRun' = [outcome |-> run.outcome, executed |-> run.executed,
                   sync |-> syncStore, local |-> localStore]
    /\ written' = <<>>
    /\ UNCHANGED <<syncStore, localStore, manifest, migrations>>

\* The loop is over: the version is written next
Advance(r) ==
    [r EXCEPT !.i = @ + 1,
              !.pc = IF r.i + 1 > Len(migrations) THEN "setVersion" ELSE @]

\* A loop that ran every migration
SelectedAll(m) == TRUE

\* Whether the loop of the branch runs migration m
Selected(m) ==
    IF run.pc = "fresh"
    THEN compareVersions(m.version, manifest) <= 0
    ELSE /\ ~(compareVersions(m.version, run.storedVersion) <= 0)
         /\ ~(compareVersions(m.version, manifest) > 0)

\* One iteration of the loop over the migrations that skips the migration
Skip ==
    /\ run.pc \in {"fresh", "upgrade"}
    /\ ~Selected(migrations[run.i])
    /\ run' = Advance(run)
    /\ UNCHANGED <<syncStore, localStore, written, manifest, migrations,
                   lastRun>>

\* One iteration that runs the migration and applies the patch it returns
Migrate ==
    /\ run.pc \in {"fresh", "upgrade"}
    /\ Selected(migrations[run.i])
    /\ migrations[run.i].does # "throws"
    /\ run' = [Advance(run) EXCEPT !.executed = Append(@, run.i)]
    /\ CASE migrations[run.i].does = "sync" ->
                /\ syncStore' = ApplyItems(syncStore, PatchOf(run.i))
                /\ written' = Append(written, Write("sync", PatchOf(run.i)))
                /\ UNCHANGED localStore
         [] migrations[run.i].does = "local" ->
                /\ localStore' = ApplyItems(localStore, PatchOf(run.i))
                /\ written' = Append(written, Write("local", PatchOf(run.i)))
                /\ UNCHANGED syncStore
         [] OTHER -> UNCHANGED <<syncStore, localStore, written>>
    /\ UNCHANGED <<manifest, migrations, lastRun>>

\* An iteration that swallowed the exception and went on with the loop
MigrateThrowsSwallowed ==
    /\ run.pc \in {"fresh", "upgrade"}
    /\ Selected(migrations[run.i])
    /\ migrations[run.i].does = "throws"
    /\ run' = [Advance(run) EXCEPT !.executed = Append(@, run.i)]
    /\ UNCHANGED <<syncStore, localStore, written, manifest, migrations,
                   lastRun>>

\* One iteration whose migration throws: the run stops and rejects
MigrateThrows ==
    /\ run.pc \in {"fresh", "upgrade"}
    /\ Selected(migrations[run.i])
    /\ migrations[run.i].does = "throws"
    /\ run' = [run EXCEPT !.pc = "done", !.outcome = "rejected",
                          !.executed = Append(@, run.i)]
    /\ UNCHANGED <<syncStore, localStore, written, manifest, migrations,
                   lastRun>>

\* A runner that ends without recording the version
SetVersionSkipped ==
    /\ run.pc = "setVersion"
    /\ run' = [run EXCEPT !.pc = "done", !.outcome = "resolved"]
    /\ UNCHANGED <<syncStore, localStore, written, manifest, migrations,
                   lastRun>>

\* await kv.set('sync', 'version', currentVersion)
SetVersion ==
    /\ run.pc = "setVersion"
    /\ syncStore' = ApplyItems(syncStore, kvSet("version", manifest))
    /\ written' = Append(written, Write("sync", kvSet("version", manifest)))
    /\ run' = [run EXCEPT !.pc = "done", !.outcome = "resolved"]
    /\ UNCHANGED <<localStore, manifest, migrations, lastRun>>

NextMigration ==
    \/ RunMigrations /\ UNCHANGED notMig
    \/ Skip /\ UNCHANGED notMig
    \/ Migrate /\ UNCHANGED notMig
    \/ MigrateThrows /\ UNCHANGED notMig
    \/ SetVersion /\ UNCHANGED notMig

(***************************************************************************)
(* Migration runner: properties.                                           *)
(***************************************************************************)
SecondRunFinished == run.n >= 2 /\ run.pc = "done"

RepeatsNothing ==
    /\ run.outcome = "resolved"
    /\ run.executed = <<>>
    /\ written = <<>>
    /\ syncStore = lastRun.sync
    /\ localStore = lastRun.local

StartSync == lastRun.sync
StartLocal == lastRun.local

RunFinished == run.n >= 1 /\ run.pc = "done"

VersionWrite == Write("sync", [version |-> manifest])

\* The stored version is newer than the manifest version
Downgrade ==
    /\ Truthy(StartSync.version)
    /\ compareVersions(StartSync.version, manifest) > 0

\* C11: when the stored version is newer than the manifest version, a run
\* of runMigrations executes no migration step and performs no storage
\* write, so sync.version keeps its value, whether the migration list is
\* empty or not.
C11_DowngradeLeavesAll ==
    (run.n >= 1 /\ Downgrade) =>
        /\ run.pc = "done" /\ run.outcome = "resolved"
        /\ run.executed = <<>>
        /\ written = <<>>
        /\ syncStore = StartSync
        /\ localStore = StartLocal

C11_Witness ==
    /\ RunFinished /\ Downgrade
    /\ StartSync.version = Str(<<"2">>)
    /\ manifest = Str(<<"1", ".", "2">>)
    /\ Len(migrations) = 2
    /\ migrations[1].version = Str(<<"1">>)
    /\ migrations[1].does = "sync"
    /\ syncStore.version = Str(<<"2">>)

\* C12: with an empty migration list, a run on a fresh install or on a
\* stored version older than the manifest version writes only
\* sync.version := manifest version; every other key of sync and local
\* storage is left unchanged.
C12_EmptyListTracksVersion ==
    (RunFinished /\ migrations = <<>>
       /\ (~Truthy(StartSync.version)
             \/ compareVersions(StartSync.version, manifest) < 0)) =>
        /\ run.outcome = "resolved"
        /\ Len(written) = 1
        /\ written[1].area = "sync"
        /\ DOMAIN written[1].items = {"version"}
        /\ written[1].items["version"] = manifest
        /\ syncStore.version = manifest
        /\ \A k \in Keys \ {"version"} : syncStore[k] = StartSync[k]
        /\ localStore = StartLocal

C12_Witness ==
    /\ RunFinished /\ migrations = <<>>
    /\ StartSync.version = Str(<<"1">>)
    /\ StartSync.settings = DEFAULT_SETTINGS
    /\ manifest = Str(<<"1", ".", "2">>)
    /\ syncStore.version = Str(<<"1", ".", "2">>)
    /\ syncStore.settings = DEFAULT_SETTINGS

\* The indices, in list order, of the migrations whose version is at most
\* the manifest version and, when a version is stored, above it
ExpectedSteps(storedVersion) ==
    SelectSeq([ i \in 1..Len(migrations) |-> i ],
              LAMBDA i :
                  /\ compareVersions(migrations[i].version, manifest) <= 0
                  /\ \/ ~Truthy(storedVersion)
                     \/ compareVersions(migrations[i].version,
                                        storedVersion) > 0)

IsPrefix(s, t) == Len(s) <= Len(t) /\ s = SubSeq(t, 1, Len(s))

\* The writes made to the key `version`
VersionWrites == { k \in 1..Len(written) : "version" \in DOMAIN written[k].items }

\* C13: with a non-empty migration list a run executes exactly the
\* migrations whose version v satisfies v <= manifest version and (no
\* version stored, or v > stored version), each once and in list order;
\* the manifest version is recorded only after the last of them, as the
\* last write of the run.
C13_RunsSelectedInOrder ==
    (run.n >= 1 /\ migrations # <<>>) =>
        /\ IsPrefix(run.executed, ExpectedSteps(StartSync.version))
        /\ VersionWrites # {} =>
              /\ run.executed = ExpectedSteps(StartSync.version)
              /\ VersionWrites = {Len(written)}
              /\ written[Len(written)] = VersionWrite
              /\ run.pc = "done"
        /\ (run.pc = "done" /\ run.outcome = "resolved") =>
              /\ run.executed = ExpectedSteps(StartSync.version)
              /\ (~Truthy(StartSync.version)
                    \/ compareVersions(StartSync.version, manifest) < 0) =>
                    /\ VersionWrites = {Len(written)}
                    /\ syncStore.version = manifest

C13_Witness ==
    /\ RunFinished /\ run.outcome = "resolved"
    /\ StartSync.version = Str(<<"1">>)
    /\ manifest = Str(<<"1", ".", "2">>)
    /\ Len(migrations) = 2
    /\ migrations[1].version = Str(<<"2">>)
    /\ migrations[2].version = Str(<<"1", ".", "2">>)
    /\ migrations[2].does = "local"
    /\ run.executed = <<2>>
    /\ written = <<Write("local", PatchOf(2)), VersionWrite>>

\* The writes of the steps s, in order
RECURSIVE PatchWrites(_)
PatchWrites(s) ==
    IF s = <<>> THEN <<>>
    ELSE LET does == migrations[Head(s)].does
         IN  (IF does \in {"sync", "local"}
              THEN <<Write(does, PatchOf(Head(s)))>> ELSE <<>>)
             \o PatchWrites(Tail(s))

\* The storage area `area` after the writes w were applied to `store`
RECURSIVE AfterWrites(_, _, _)
AfterWrites(store, area, w) ==
    IF w = <<>> THEN store
    ELSE AfterWrites(IF Head(w).area = area
                     THEN [ k \in Keys |->
                              IF k \in DOMAIN Head(w).items
                              THEN Head(w).items[k] ELSE store[k] ]
                     ELSE store,
                     area, Tail(w))

NoButton == 0 - 1
LEFT_BUTTON == 0
RIGHT_BUTTON == 2
END_KEY == "End"
HOME_KEY == "Home"

\* The page is larger than every position of the model; updateBox clamps
\* the pointer to the page size minus 7.
PageWidth == 37
PageHeight == 37

MaxDetectCalls == 4
MaxScrolls == 1

Min2(a, b) == IF a < b THEN a ELSE b
Max2(a, b) == IF a > b THEN a ELSE b

\* An Action of the settings: what the engine reads of it.  `ignore` is
\* "none" (no keywords), "exclude" (mode 0) or "include" (mode 1).
Act(id, mouse, key, smart, ignore) ==
    [id |-> id, mouse |-> mouse, key |-> key, smart |-> smart,
     ignore |-> ignore]

NoSettings == [present |-> FALSE, actions |-> <<>>]

\* settings.actions, in the order `for (const id in actions)` visits them
ActionLists ==
    { <<Act("101", LEFT_BUTTON, "z", TRUE, "none")>>,
      <<Act("101", LEFT_BUTTON, "", FALSE, "none")>>,
      <<Act("101", LEFT_BUTTON, "z", TRUE, "exclude"),
        Act("102", LEFT_BUTTON, "z", FALSE, "none")>>,
      <<Act("101", RIGHT_BUTTON, "z", FALSE, "none"),
        Act("102", LEFT_BUTTON, "z", TRUE, "include")>> }

\* Positions of mouse events
Positions == { <<0, 0>>, <<4, 4>>, <<4, 12>>, <<12, 12>> }

\* Positions of the mouse-down that begins a gesture
DownPositions == { <<0, 0>>, <<12, 12>> }

Buttons == {LEFT_BUTTON, RIGHT_BUTTON}
PressedKeys == {"z", END_KEY}

Rect(x1, y1, x2, y2) == [x1 |-> x1, y1 |-> y1, x2 |-> x2, y2 |-> y2]
Near == Rect(2, 2, 3, 3)
Far == Rect(8, 8, 11, 11)

\* An anchor of document.links: `kind` is "ok", "javascript" (a
\* javascript: href), "empty" (no href or '#') or "hidden" (not displayed);
\* `heading` says its parent is H1..H6; `keyword` says the action's ignore
\* keywords match its href or markup.
PageLink(href, rect, heading, kind, keyword) ==
    [href |-> href, title |-> href, rect |-> rect, heading |-> heading,
     kind |-> kind, keyword |-> keyword]

Pages ==
    { <<PageLink("a", Near, TRUE, "ok", FALSE),
        PageLink("b", Near, FALSE, "ok", FALSE)>>,
      <<PageLink("b", Near, FALSE, "ok", TRUE),
        PageLink("a", Far, TRUE, "ok", FALSE)>>,
      <<PageLink("b", Near, FALSE, "ok", FALSE),
        PageLink("a", Near, TRUE, "ok", TRUE),
        PageLink("j", Near, FALSE, "javascript", FALSE),
        PageLink("b", Far, FALSE, "ok", FALSE),
        PageLink("h", Far, TRUE, "hidden", FALSE)>> }

\* Blocked-site patterns: one that matches the page URL, one that does
\* not, the empty string, and one that is not a regular expression.
Patterns == {"match", "nomatch", "", "("}
BlockedLists ==
    { <<>> } \cup { <<p>> : p \in Patterns }
             \cup { <<p, q>> : p \in Patterns, q \in Patterns }

\* new RegExp(pattern, 'i') throws a SyntaxError
RegExpThrows(pattern) == pattern = "("

\* re.test(window.location.href); the empty expression matches every URL
RegExpTest(pattern) == pattern \in {"match", ""}

NoTimerSet == [set |-> FALSE, x |-> 0, y |-> 0]
NoBox ==
    [created |-> FALSE, visible |-> FALSE, labelVisible |-> FALSE,
     left |-> 0, top |-> 0, width |-> 0, height |-> 0, count |-> 0]
NoActivation == [urls |-> <<>>, setting |-> None]

\* new Core()
NewCore ==
    [initialised |-> FALSE, settings |-> NoSettings, currentSetting |-> None,
     keyPressed |-> None, mouseButton |-> NoButton, boxOn |-> FALSE,
     smartSelect |-> FALSE, mouseX |-> 0 - 1, mouseY |-> 0 - 1,
     scrollId |-> FALSE, links |-> <<>>, scrollBugIgnore |-> FALSE,
     timer |-> NoTimerSet, boxStartX |-> 0, boxStartY |-> 0]

\* The document and window as the engine changes them
NewDom == [box |-> NoBox, listeners |-> {}]

\* What has happened since the mouse-down that began the current gesture
NewGesture ==
    [open |-> FALSE, starts |-> 0, sent |-> 0, lastSent |-> NoActivation,
     everLarge |-> FALSE, detectCalls |-> 0, stable |-> FALSE,
     scrolls |-> 0]

CoreIdle ==
    /\ core = NewCore
    /\ dom = NewDom
    /\ gesture = NewGesture
    /\ page = <<>>

CapturingListeners == {"mousedown", "keydown", "keyup", "blur", "contextmenu"}
GestureListeners == {"mousemove", "mouseup", "wheel", "mouseout"}

\* The engine's state as one value that the methods transform
World == [core |-> core, dom |-> dom, log |-> gesture]

Becomes(w) ==
    /\ core' = w.core
    /\ dom' = w.dom
    /\ gesture' = w.log

(***************************************************************************)
(* Methods of Core, as functions of the state.                             *)
(***************************************************************************)
Matches(c, action) ==
    action.mouse = c.mouseButton /\ action.key = c.keyPressed

\* allowSelection(): its result
allowSelection(c) ==
    /\ c.settings.present
    /\ c.mouseButton # NoButton
    /\ \E i \in 1..Len(c.settings.actions) : Matches(c, c.settings.actions[i])

\* allowSelection(): its effect, the first matching action becomes current
AfterAllowSelection(c) ==
    IF allowSelection(c)
    THEN LET i == CHOOSE i \in 1..Len(c.settings.actions) :
                      /\ Matches(c, c.settings.actions[i])
                      /\ \A j \in 1..(i - 1) :
                             ~Matches(c, c.settings.actions[j])
         IN  [c EXCEPT !.currentSetting = c.settings.actions[i].id]
    ELSE c

HasAction(c, id) ==
    \E i \in 1..Len(c.settings.actions) : c.settings.actions[i].id = id

ActionById(c, id) ==
    c.settings.actions[CHOOSE i \in 1..Len(c.settings.actions) :
                           c.settings.actions[i].id = id]

\* The box is below the size at which selection starts
TooSmall(box) == box.width < 5 /\ box.height < 5

\* createBox()
createBox(w) ==
    IF w.dom.box.created THEN w
    ELSE [w EXCEPT !.dom.box = [NoBox EXCEPT !.created = TRUE]]

\* updateBox(x, y)
updateBox(w, x, y) ==
    IF ~w.dom.box.created THEN w
    ELSE LET cx == Min2(x, PageWidth - 7)
             cy == Min2(y, PageHeight - 7)
             x1 == Min2(w.core.boxStartX, cx)
             x2 == Max2(w.core.boxStartX, cx)
             y1 == Min2(w.core.boxStartY, cy)
             y2 == Max2(w.core.boxStartY, cy)
             b == [w.dom.box EXCEPT !.left = x1, !.width = x2 - x1,
                                    !.top = y1, !.height = y2 - y1]
         IN  [w EXCEPT !.dom.box = b,
                       !.core.mouseX = cx, !.core.mouseY = cy]

\* The gesture's record of a mouse-move or mouse-up evaluation of the box
Evaluated(w) == [w EXCEPT !.log.everLarge = @ \/ ~TooSmall(w.dom.box)]

\* The filters of start(): which anchors become candidate links
Candidate(action, link) ==
    /\ link.kind = "ok"
    /\ ~(action.ignore = "exclude" /\ link.keyword)
    /\ ~(action.ignore = "include" /\ ~link.keyword)

Captured(action, link) ==
    [href |-> link.href, title |-> link.title, rect |-> link.rect,
     heading |-> link.heading, box |-> "none",
     important |-> (action.smart = FALSE /\ link.heading)]

\* start(action)
start(w, action) ==
    [w EXCEPT !.dom.box.visible = TRUE,
              !.dom.box.labelVisible = TRUE,
              !.core.links = @ \o
                  [ i \in 1..Len(SelectSeq(page,
                                   LAMBDA l : Candidate(action, l))) |->
                        Captured(action,
                                 SelectSeq(page,
                                   LAMBDA l : Candidate(action, l))[i]) ],
              !.core.boxOn = TRUE,
              !.log.starts = Min2(@ + 1, 2)]

\* A cleanUp that forgets to empty the candidate list
cleanUpKeepsLinks(w) ==
    [w EXCEPT !.dom.box.visible = FALSE,
              !.dom.box.labelVisible = FALSE,
              !.core.boxOn = FALSE,
              !.core.smartSelect = FALSE,
              !.core.mouseButton = NoButton,
              !.core.keyPressed = None]

\* cleanUp()
cleanUp(w) ==
    [w EXCEPT !.dom.box.visible = FALSE,
              !.dom.box.labelVisible = FALSE,
              !.core.boxOn = FALSE,
              !.core.links = <<>>,
              !.core.smartSelect = FALSE,
              !.core.mouseButton = NoButton,
              !.core.keyPressed = None]

\* stop()
stop(w) ==
    LET v == [w EXCEPT !.dom.listeners = @ \ GestureListeners,
                       !.log.open = FALSE, !.log.stable = FALSE]
    IN  IF v.core.boxOn THEN cleanUp(v) ELSE v

Overlaps(link, box) ==
    ~(\/ link.rect.x1 > box.left + box.width
      \/ link.rect.x2 < box.left
      \/ link.rect.y1 > box.top + box.height
      \/ link.rect.y2 < box.top)

\* The loop of detectLinks over this.links, from link i on.  `restart`
\* says the loop left through `return false` after switching smart
\* selection on.
RECURSIVE Scan(_, _, _, _, _, _, _, _)
Scan(links, i, box, smart, count, hrefs, tabs, open) ==
    IF i > Len(links)
    THEN [links |-> links, restart |-> FALSE, count |-> count,
          hrefs |-> hrefs, tabs |-> tabs]
    ELSE IF (~smart \/ links[i].important) /\ Overlaps(links[i], box)
         THEN LET tabs2 == IF open
                           THEN Append(tabs, [url |-> links[i].href,
                                              title |-> links[i].title])
                           ELSE tabs
              IN  IF ~smart /\ links[i].important
                  THEN [links |-> links, restart |-> TRUE, count |-> count,
                        hrefs |-> hrefs, tabs |-> tabs2]
                  ELSE Scan([links EXCEPT ![i].box = "visible"], i + 1, box,
                            smart,
                            IF smart /\ links[i].important
                            THEN count + 1 ELSE count,
                            hrefs \cup {links[i].href}, tabs2, open)
         ELSE Scan([links EXCEPT ![i].box =
                        IF @ = "none" THEN "none" ELSE "hidden"],
                   i + 1, box, smart, count, hrefs, tabs, open)

Returns(w, result) == [w |-> w, result |-> result]

\* A detectLinks that leaves smart selection off when it meets an important
\* link
DetectActiveKeepsSmartOff(w, action, open) ==
    LET v == [w EXCEPT !.core.scrollId = TRUE]
        r == Scan(v.core.links, 1, v.dom.box, v.core.smartSelect, 0, {},
                  <<>>, open)
    IN  IF r.restart \/ (v.core.smartSelect /\ r.count = 0)
        THEN Returns([v EXCEPT !.core.links = r.links,
                               !.core.smartSelect = FALSE], FALSE)
        ELSE Returns([v EXCEPT !.core.links = r.links,
                               !.dom.box.count = Cardinality(r.hrefs)],
                     TRUE)

\* detectLinks(x, y, open) once the box is known to be active
DetectActive(w, action, open) ==
    LET v == [w EXCEPT !.core.scrollId = TRUE]
        r == Scan(v.core.links, 1, v.dom.box, v.core.smartSelect, 0, {},
                  <<>>, open)
    IN  IF r.restart
        THEN Returns([v EXCEPT !.core.links = r.links,
                               !.core.smartSelect = TRUE], FALSE)
        ELSE IF v.core.smartSelect /\ r.count = 0
        THEN Returns([v EXCEPT !.core.links = r.links,
                               !.core.smartSelect = FALSE], FALSE)
        ELSE Returns(
               [v EXCEPT !.core.links = r.links,
                         !.dom.box.count = Cardinality(r.hrefs),
                         !.log.sent =
                             IF open /\ r.tabs # <<>>
                             THEN Min2(@ + 1, 2) ELSE @,
                         !.log.lastSent =
                             IF open /\ r.tabs # <<>>
                             THEN [urls |-> r.tabs, setting |-> action.id]
                             ELSE @],
               TRUE)

\* A detectLinks that sends the selection on every pass
detectLinksAlwaysOpen(w, open) ==
    IF \/ ~w.core.settings.present
       \/ w.core.currentSetting = None
       \/ ~w.dom.box.created
    THEN Returns(w, TRUE)
    ELSE IF ~HasAction(w.core, w.core.currentSetting)
    THEN Returns(w, TRUE)
    ELSE LET action == ActionById(w.core, w.core.currentSetting)
         IN  IF w.core.boxOn
             THEN DetectActive(w, action, TRUE)
             ELSE IF TooSmall(w.dom.box)
             THEN Returns(w, TRUE)
             ELSE DetectActive(start(w, action), action, TRUE)

\* detectLinks(x, y, open): the state it leaves and what it returns
detectLinks(w, open) ==
    IF \/ ~w.core.settings.present
       \/ w.core.currentSetting = None
       \/ ~w.dom.box.created
    THEN Returns(w, TRUE)
    ELSE IF ~HasAction(w.core, w.core.currentSetting)
    THEN Returns(w, TRUE)
    ELSE LET action == ActionById(w.core, w.core.currentSetting)
         IN  IF w.core.boxOn
             THEN DetectActive(w, action, open)
             ELSE IF TooSmall(w.dom.box)
             THEN Returns(w, TRUE)
             ELSE DetectActive(start(w, action), action, open)

\* while (!this.detectLinks(x, y, false)) {}, given up after
\* MaxDetectCalls calls
RECURSIVE DetectUntilTrue(_, _)
DetectUntilTrue(w, n) ==
    LET r == detectLinks(w, FALSE)
    IN  IF r.result \/ n >= MaxDetectCalls
        THEN [r.w EXCEPT !.log.detectCalls = n, !.log.stable = r.result]
        ELSE DetectUntilTrue(r.w, n + 1)

\* A mouse-move handler without the else branch
handleMouseMoveNeverStops(w, x, y) ==
    LET allowed == allowSelection(w.core)
        v == [w EXCEPT !.core = AfterAllowSelection(@)]
    IN  IF allowed \/ v.core.scrollBugIgnore
        THEN DetectUntilTrue(
                 Evaluated(updateBox(
                     [v EXCEPT !.core.scrollBugIgnore = FALSE], x, y)),
                 1)
        ELSE v

\* handleMouseMove(event)
handleMouseMove(w, x, y) ==
    LET allowed == allowSelection(w.core)
        v == [w EXCEPT !.core = AfterAllowSelection(@)]
    IN  IF allowed \/ v.core.scrollBugIgnore
        THEN DetectUntilTrue(
                 Evaluated(updateBox(
                     [v EXCEPT !.core.scrollBugIgnore = FALSE], x, y)),
                 1)
        ELSE IF ~v.core.timer.set THEN stop(v) ELSE v

\* The loop of init() over response.blocked: "allowed", "blocked" when a
\* pattern matches the page URL, "threw" when new RegExp throws
RECURSIVE BlockedOutcome(_, _)
BlockedOutcome(patterns, i) ==
    IF i > Len(patterns) THEN "allowed"
    ELSE IF patterns[i] = "" THEN BlockedOutcome(patterns, i + 1)
    ELSE IF RegExpThrows(patterns[i]) THEN "threw"
    ELSE IF RegExpTest(patterns[i]) THEN "blocked"
    ELSE BlockedOutcome(patterns, i + 1)

\* setupEventListeners()
setupEventListeners(w) ==
    [w EXCEPT !.dom.listeners = @ \cup CapturingListeners]

(***************************************************************************)
(* Actions of the content script                                           *)
(***************************************************************************)
\* init(): the background answered LINKCLUMP_INIT with {actions, blocked}
InitResponse(actions, patterns) ==
    /\ ~core.initialised
    /\ LET w == [World EXCEPT !.core.initialised = TRUE,
                              !.core.settings = [present |-> TRUE,
                                                 actions |-> actions]]
       IN  Becomes(IF BlockedOutcome(patterns, 1) = "allowed"
                   THEN setupEventListeners(w) ELSE w)
    /\ UNCHANGED <<page, notCore>>

\* init(): no answer (a falsy response, or sendToBackground rejected)
InitFails ==
    /\ ~core.initialised
    /\ Becomes([World EXCEPT !.core.initialised = TRUE])
    /\ UNCHANGED <<page, notCore>>

\* A mouse-down handler that does not look at the pending timer
MouseDownStartsAnew(button, x, y) ==
    /\ "mousedown" \in dom.listeners
    /\ LET allowed == allowSelection([core EXCEPT !.mouseButton = button])
           w == [World EXCEPT
                   !.core = AfterAllowSelection(
                                [@ EXCEPT !.mouseButton = button])]
       IN  Becomes(
             IF ~allowed THEN w
             ELSE LET v == IF w.core.boxOn THEN cleanUp(w) ELSE w
                      fresh == [NewGesture EXCEPT !.open = TRUE]
                  IN  [updateBox(
                         [createBox([v EXCEPT !.log = fresh])
                            EXCEPT !.core.boxStartX = x,
                                   !.core.boxStartY = y],
                         x, y)
                       EXCEPT !.dom.listeners = @ \cup GestureListeners])
    /\ UNCHANGED <<page, notCore>>

\* handleMouseDown(event)
MouseDown(button, x, y) ==
    /\ "mousedown" \in dom.listeners
    /\ LET allowed == allowSelection([core EXCEPT !.mouseButton = button])
           w == [World EXCEPT
                   !.core = AfterAllowSelection(
                                [@ EXCEPT !.mouseButton = button])]
       IN  Becomes(
             IF ~allowed THEN w
             ELSE IF w.core.timer.set
             THEN [w EXCEPT !.core.timer = NoTimerSet]
             ELSE LET v == IF w.core.boxOn THEN cleanUp(w) ELSE w
                      fresh == [NewGesture EXCEPT !.open = TRUE]
                  IN  [updateBox(
                         [createBox([v EXCEPT !.log = fresh])
                            EXCEPT !.core.boxStartX = x,
                                   !.core.boxStartY = y],
                         x, y)
                       EXCEPT !.dom.listeners = @ \cup GestureListeners])
    /\ UNCHANGED <<page, notCore>>

\* handleMouseMove(event)
MouseMove(x, y) ==
    /\ "mousemove" \in dom.listeners
    /\ Becomes(handleMouseMove(World, x, y))
    /\ UNCHANGED <<page, notCore>>

\* handleMouseOut(event)
MouseOut(x, y) ==
    /\ "mouseout" \in dom.listeners
    /\ Becomes([handleMouseMove(World, x, y)
                  EXCEPT !.core.scrollBugIgnore = TRUE])
    /\ UNCHANGED <<page, notCore>>

\* handleMouseUp(event): the state it leaves
handleMouseUp(w, x, y) ==
    IF w.core.boxOn
    THEN LET v == [w EXCEPT !.core = AfterAllowSelection(@)]
         IN  IF allowSelection(w.core) /\ ~w.core.timer.set
             THEN [v EXCEPT !.core.timer = [set |-> TRUE, x |-> x, y |-> y]]
             ELSE v
    ELSE stop(w)

\* handleMouseUp(event)
MouseUp(x, y) ==
    /\ "mouseup" \in dom.listeners
    /\ Becomes(handleMouseUp(World, x, y))
    /\ UNCHANGED <<page, notCore>>

\* The callback of the timer set by handleMouseUp, 100 ms later
BounceTimerFires ==
    /\ core.timer.set
    /\ Becomes([stop(detectLinks(Evaluated(updateBox(World, core.timer.x,
                                                     core.timer.y)),
                                  TRUE).w)
                  EXCEPT !.core.timer = NoTimerSet])
    /\ UNCHANGED <<page, notCore>>

\* handleKeyDown(event)
KeyDown(key) ==
    /\ "keydown" \in dom.listeners
    /\ Becomes(IF key # END_KEY /\ key # HOME_KEY
               THEN [World EXCEPT !.core.keyPressed = key]
               ELSE [World EXCEPT !.core.scrollBugIgnore = TRUE])
    /\ UNCHANGED <<page, notCore>>

\* handleKeyUp(event)
KeyUp(key) ==
    /\ "keyup" \in dom.listeners
    /\ Becomes(IF key # END_KEY /\ key # HOME_KEY
               THEN [World EXCEPT !.core.keyPressed = None]
               ELSE World)
    /\ UNCHANGED <<page, notCore>>

\* handleBlur()
Blur ==
    /\ "blur" \in dom.listeners
    /\ Becomes([World EXCEPT !.core.keyPressed = None])
    /\ UNCHANGED <<page, notCore>>

\* handleMouseWheel()
Wheel ==
    /\ "wheel" \in dom.listeners
    /\ Becomes([World EXCEPT !.core.scrollBugIgnore = TRUE])
    /\ UNCHANGED <<page, notCore>>

\* scroll(), the interval callback: the selection is no longer allowed, or
\* the pointer is away from both window edges
ScrollStops ==
    /\ core.scrollId
    /\ Becomes([World EXCEPT !.core = [AfterAllowSelection(@)
                                         EXCEPT !.scrollId = FALSE]])
    /\ UNCHANGED <<page, notCore>>

\* scroll(), the interval callback: the pointer is near the bottom
\* (speed > 0) or the top (speed < 0) edge of the window
ScrollTick(speed) ==
    /\ core.scrollId
    /\ allowSelection(core)
    /\ gesture.scrolls < MaxScrolls
    /\ LET w == [World EXCEPT !.core = AfterAllowSelection(@),
                              !.log.scrolls = @ + 1]
           r == detectLinks(updateBox(w, w.core.mouseX,
                                      w.core.mouseY + speed),
                            FALSE)
       IN  Becomes([r.w EXCEPT !.core.scrollBugIgnore = TRUE,
                               !.log.stable = r.result])
    /\ UNCHANGED <<page, notCore>>

ScrollSpeeds == {10, 0 - 10}

NextCore ==
    \/ \E actions \in ActionLists, patterns \in BlockedLists :
           InitResponse(actions, patterns)
    \/ InitFails
    \/ \E button \in Buttons, p \in DownPositions : MouseDown(button, p[1], p[2])
    \/ \E p \in Positions : MouseMove(p[1], p[2])
    \/ \E p \in Positions : MouseOut(p[1], p[2])
    \/ \E p \in Positions : MouseUp(p[1], p[2])
    \/ BounceTimerFires
    \/ \E key \in PressedKeys : KeyDown(key)
    \/ \E key \in PressedKeys : KeyUp(key)
    \/ Blur
    \/ Wheel
    \/ ScrollStops
    \/ \E speed \in ScrollSpeeds : ScrollTick(speed)

(***************************************************************************)
(* Claims about the content script                                         *)
(***************************************************************************)
\* The key an action must be configured with to match the pressed key, as
\* stated: no key pressed stands for the empty-string configuration
StatedKey(c) == IF c.keyPressed = None THEN "" ELSE c.keyPressed

StatedMatch(c, action) ==
    action.mouse = c.mouseButton /\ action.key = StatedKey(c)

\* C15: allowSelection() returns true iff some configured action has
\* `mouse` equal to the pressed button and `key` equal to the pressed key,
\* where no key pressed matches an action configured with the empty-string
\* key; the first such action in iteration order becomes the current one.
C15_AllowSelectionAsStated ==
    (core.settings.present /\ core.mouseButton # NoButton) =>
        LET actions == core.settings.actions
            stated == { i \in 1..Len(actions) : StatedMatch(core, actions[i]) }
        IN  /\ allowSelection(core) <=> stated # {}
            /\ stated # {} =>
                 AfterAllowSelection(core).currentSetting =
                     actions[CHOOSE i \in stated :
                                 \A j \in stated : i <= j].id

\* The part of C15 the code keeps: with a key pressed, the first action
\* with that button and key becomes current
C15_FirstMatchWithKeyPressed ==
    (core.settings.present /\ core.mouseButton # NoButton
        /\ core.keyPressed # None) =>
        LET actions == core.settings.actions
            stated == { i \in 1..Len(actions) : StatedMatch(core, actions[i]) }
        IN  /\ allowSelection(core) <=> stated # {}
            /\ stated # {} =>
                 AfterAllowSelection(core).currentSetting =
                     actions[CHOOSE i \in stated :
                                 \A j \in stated : i <= j].id

\* A no-key action is configured, the left button is down with no key
\* pressed, and the selection is refused
C15_NoKeyActionRefused ==
    /\ core.settings.present
    /\ core.mouseButton = LEFT_BUTTON
    /\ core.keyPressed = None
    /\ \E i \in 1..Len(core.settings.actions) :
           /\ core.settings.actions[i].mouse = LEFT_BUTTON
           /\ core.settings.actions[i].key = ""
    /\ ~allowSelection(core)

\* The links whose highlight box is shown: the selected set
SelectedLinks == { i \in 1..Len(core.links) : core.links[i].box = "visible" }

OverlappedLinks ==
    { i \in 1..Len(core.links) : Overlaps(core.links[i], dom.box) }

OverlappedHeadings == { i \in OverlappedLinks : core.links[i].heading }

\* detectLinks has reported a stable result for an active box
StableSelection ==
    /\ core.boxOn
    /\ gesture.stable
    /\ HasAction(core, core.currentSetting)

CurrentAction == ActionById(core, core.currentSetting)

\* C16: for an action whose `smart` option is true, once detectLinks
\* reports a stable result the selected set is only the overlapping links
\* under a heading if the box overlaps at least one such link, and all
\* overlapping candidate links otherwise; for an action whose `smart`
\* option is false every overlapping candidate link is selected.
C16_SmartSelectAsStated ==
    StableSelection =>
        SelectedLinks =
            IF CurrentAction.smart /\ OverlappedHeadings # {}
            THEN OverlappedHeadings
            ELSE OverlappedLinks

\* What the code does instead: the narrowing to heading links applies to
\* the actions whose `smart` option is false (for links captured under the
\* current action)
C16_NarrowsWhenSmartIsFalse ==
    (/\ StableSelection
     /\ \A i \in 1..Len(core.links) :
            core.links[i].important =
                (CurrentAction.smart = FALSE /\ core.links[i].heading)) =>
        SelectedLinks =
            IF ~CurrentAction.smart /\ OverlappedHeadings # {}
            THEN OverlappedHeadings
            ELSE OverlappedLinks

\* A narrowed selection under an action whose `smart` option is false
C16_PlainActionNarrows ==
    /\ StableSelection
    /\ ~CurrentAction.smart
    /\ OverlappedHeadings # {}
    /\ SelectedLinks = OverlappedHeadings
    /\ SelectedLinks # OverlappedLinks

\* A smart action with a heading link and a plain link under the box, both
\* selected
C16_SmartSelectsEverything ==
    /\ StableSelection
    /\ Len(core.settings.actions) = 1
    /\ CurrentAction.smart
    /\ OverlappedHeadings # {}
    /\ OverlappedHeadings # OverlappedLinks
    /\ SelectedLinks = OverlappedLinks

\* C17: a gesture whose box stays smaller than 5x5 pixels at every
\* mouse-move evaluation and at mouse-up never invokes start(), never marks
\* the box active and sends no activation message, whatever links lie under
\* the box; start() runs at most once per gesture.
C17_SmallBoxNeverStarts ==
    /\ ~gesture.everLarge =>
           /\ gesture.starts = 0
           /\ ~core.boxOn
           /\ gesture.sent = 0
    /\ gesture.starts <= 1

\* What holds of C17: as long as no auto-scroll tick has run since the
\* mouse-down, a gesture whose box stayed small has not started the
\* selection, and start() has run at most once
C17_SmallBoxStartsOnlyByScroll ==
    gesture.scrolls = 0 =>
        /\ ~gesture.everLarge =>
               /\ gesture.starts = 0
               /\ ~core.boxOn
               /\ gesture.sent = 0
        /\ gesture.starts <= 1

\* An auto-scroll tick has started the selection of a gesture whose box
\* was small at every mouse-move evaluation
C17_StartedByScroll ==
    /\ gesture.open
    /\ ~gesture.everLarge
    /\ gesture.scrolls > 0
    /\ gesture.starts = 1
    /\ core.boxOn

\* ... and the mouse-up timer of such a gesture has sent an activation
C17_SmallBoxActivated ==
    /\ ~gesture.everLarge
    /\ gesture.sent > 0

\* Some pattern of the list matches the page URL, as stated: a string that
\* is not a regular expression matches nothing
SomePatternMatches(patterns) ==
    \E i \in 1..Len(patterns) :
        ~RegExpThrows(patterns[i]) /\ RegExpTest(patterns[i])

\* C18: when the init response arrives, the five capturing listeners are
\* installed if and only if none of the configured blocked patterns matches
\* the page URL; this holds for every list of pattern strings, including
\* strings that are not valid regular expressions.
C18_ListenersIffNoPatternMatches ==
    [][\A actions \in ActionLists, patterns \in BlockedLists :
           InitResponse(actions, patterns) =>
               (CapturingListeners \subseteq dom'.listeners
                    <=> ~SomePatternMatches(patterns))]_vars

\* What holds of C18: for lists of valid, non-empty patterns
C18_ListenersIffNoValidPatternMatches ==
    [][\A actions \in ActionLists, patterns \in BlockedLists :
           (/\ InitResponse(actions, patterns)
            /\ \A i \in 1..Len(patterns) :
                   patterns[i] # "" /\ ~RegExpThrows(patterns[i])) =>
               (CapturingListeners \subseteq dom'.listeners
                    <=> ~SomePatternMatches(patterns))]_vars

\* An invalid pattern never leaves the page with listeners
C18_InvalidPatternDisables ==
    [][\A actions \in ActionLists, patterns \in BlockedLists :
           (/\ InitResponse(actions, patterns)
            /\ patterns \in { <<"(">>, <<"nomatch", "(">> }) =>
               dom'.listeners = {}]_vars

(***************************************************************************)
(* Background worker: the toolbar-action policy (isRestrictedUrl and       *)
(* applyActionPolicy), in the Linkclump worker and in the starter worker.  *)
(***************************************************************************)
Workers == {"linkclump", "starter"}
Tabs == {1, 2}

\* A URL as the platform hands it over: the text before the first colon as
\* written, the host as written and the path.  An http(s) URL with an
\* empty host is one that `new URL` rejects.
Url(scheme, host, path) ==
    [present |-> TRUE, scheme |-> scheme, host |-> host, path |-> path]

\* undefined, null or the empty string
NoUrl == [present |-> FALSE, scheme |-> "", host |-> "", path |-> ""]

UrlSchemes == {"http", "HTTPS", "chrome", "ABOUT", "foo"}
\* Host and path
UrlLocations ==
    { <<"example.com", "/">>,
      <<"example.com", "/webstore/detail/x">>,
      <<"chrome.google.com", "/">>,
      <<"chrome.google.com", "/webstore/detail/x">>,
      <<"microsoftedge.microsoft.com", "/addons">>,
      <<"", "/">> }

Urls ==
    {NoUrl} \cup { Url(s, l[1], l[2]) : s \in UrlSchemes,
                                         l \in UrlLocations }

\* The tabs chrome.tabs.query returns at install time
InstalledUrls ==
    { NoUrl, Url("http", "example.com", "/"),
      Url("HTTPS", "chrome.google.com", "/webstore/detail/x"),
      Url("chrome", "", "/") }

\* String.prototype.toLowerCase on the schemes of the model
toLowerCase(s) ==
    IF s = "HTTPS" THEN "https" ELSE IF s = "ABOUT" THEN "about" ELSE s

RESTRICTED_schemes ==
    {"chrome", "chrome-extension", "chrome-untrusted", "devtools", "edge",
     "about"}

\* RESTRICTED.hosts: the host and the path prefix each expression asks for
RESTRICTED_hosts ==
    { [host |-> "chrome.google.com", prefix |-> "/webstore"],
      [host |-> "microsoftedge.microsoft.com", prefix |-> "/addons"] }

\* new URL(raw) throws
URLThrows(raw) == raw.host = ""

\* `${u.protocol}//${u.host}${u.pathname}`
Normalized(raw) ==
    [protocol |-> toLowerCase(raw.scheme), host |-> raw.host,
     pathname |-> raw.path]

StartsWith(path, prefix) ==
    \/ prefix = "/webstore" /\ path \in {"/webstore/detail/x"}
    \/ prefix = "/addons" /\ path \in {"/addons"}

\* rx.test(normalized)
HostTest(rx, normalized) ==
    /\ normalized.protocol \in {"http", "https"}
    /\ normalized.host = rx.host
    /\ StartsWith(normalized.pathname, rx.prefix)

\* isRestrictedUrl without the closing default
isRestrictedUrlOpen(raw) ==
    IF ~raw.present THEN TRUE
    ELSE LET scheme == toLowerCase(raw.scheme)
         IN  IF scheme \in RESTRICTED_schemes THEN TRUE
             ELSE IF scheme = "http" \/ scheme = "https"
             THEN IF URLThrows(raw) THEN TRUE
                  ELSE \E rx \in RESTRICTED_hosts :
                           HostTest(rx, Normalized(raw))
             ELSE FALSE

\* isRestrictedUrl(raw)
isRestrictedUrl(raw) ==
    IF ~raw.present THEN TRUE
    ELSE LET scheme == toLowerCase(raw.scheme)
         IN  IF scheme \in RESTRICTED_schemes THEN TRUE
             ELSE IF scheme = "http" \/ scheme = "https"
             THEN IF URLThrows(raw) THEN TRUE
                  ELSE \E rx \in RESTRICTED_hosts :
                           HostTest(rx, Normalized(raw))
             ELSE TRUE

\* A tab's toolbar action before any policy was applied to it
Untouched ==
    [action |-> "default", popup |-> "default", applied |-> FALSE,
     url |-> NoUrl]

PolicyIdle ==
    /\ worker = "linkclump"
    /\ toolbar = [ t \in Tabs |-> Untouched ]

\* applyActionPolicy(tabId, url): the toolbar state of the tab afterwards
applyActionPolicy(w, old, url) ==
    IF isRestrictedUrl(url)
    THEN [old EXCEPT !.action = "disabled", !.applied = TRUE, !.url = url]
    ELSE [old EXCEPT !.action = "enabled",
                     !.popup = IF w = "starter" THEN "popup.html" ELSE @,
                     !.applied = TRUE, !.url = url]

\* chrome.tabs.onActivated, chrome.tabs.get answered
TabActivated(tab, url) ==
    /\ toolbar' = [toolbar EXCEPT
                     ![tab] = applyActionPolicy(worker, @, url)]
    /\ UNCHANGED <<worker, notPol>>

\* chrome.tabs.onActivated, chrome.tabs.get rejected: the Linkclump worker
\* ignores a tab that is gone, otherwise the policy is applied to no URL
TabActivatedGetFails(tab, gone) ==
    /\ toolbar' = IF worker = "linkclump" /\ gone THEN toolbar
                  ELSE [toolbar EXCEPT
                          ![tab] = applyActionPolicy(worker, @, NoUrl)]
    /\ UNCHANGED <<worker, notPol>>

\* chrome.tabs.onUpdated: changeInfo.url is the URL when `changed`
TabUpdated(tab, url, changed, complete) ==
    /\ toolbar' = IF complete \/ (changed /\ url.present)
                  THEN [toolbar EXCEPT
                          ![tab] = applyActionPolicy(worker, @, url)]
                  ELSE toolbar
    /\ UNCHANGED <<worker, notPol>>

\* chrome.runtime.onInstalled: the policy is applied to every open tab
Installed(tabUrls) ==
    /\ toolbar' = [ t \in Tabs |->
                      applyActionPolicy(worker, toolbar[t], tabUrls[t]) ]
    /\ UNCHANGED <<worker, notPol>>

NextPolicy ==
    \/ \E tab \in Tabs, url \in Urls : TabActivated(tab, url)
    \/ \E tab \in Tabs, gone \in BOOLEAN : TabActivatedGetFails(tab, gone)
    \/ \E tab \in Tabs, url \in Urls, changed \in BOOLEAN,
          complete \in BOOLEAN : TabUpdated(tab, url, changed, complete)
    \/ \E tabUrls \in [Tabs -> InstalledUrls] : Installed(tabUrls)

\* The URL is one the toolbar action is to be enabled for, as stated
StatedAllowed(url) ==
    /\ url.present
    /\ toLowerCase(url.scheme) \in {"http", "https"}
    /\ ~URLThrows(url)
    /\ \A rx \in RESTRICTED_hosts : ~HostTest(rx, Normalized(url))

\* C19: applyActionPolicy(tab, url) enables the tab's toolbar action iff
\* the URL's scheme is http or https, the URL parses and its normalized
\* scheme://host/path matches none of the restricted-host patterns; in
\* every other case (absent URL, disallowed or unrecognized scheme, parse
\* failure, restricted host) it disables the action.
C19_PolicyEnablesIffAllowed ==
    \A t \in Tabs :
        toolbar[t].applied =>
            /\ StatedAllowed(toolbar[t].url) => toolbar[t].action = "enabled"
            /\ ~StatedAllowed(toolbar[t].url) =>
                   toolbar[t].action = "disabled"

\* One tab enabled for an ordinary page, the other disabled for a scheme
\* that is in no list
C19_Witness ==
    /\ toolbar[1].applied
    /\ toolbar[1].url = Url("HTTPS", "example.com", "/webstore/detail/x")
    /\ toolbar[1].action = "enabled"
    /\ toolbar[2].applied
    /\ toolbar[2].url.scheme = "foo"
    /\ toolbar[2].action = "disabled"

(***************************************************************************)
(* Typed storage wrapper: set, setAll and remove, with the managed area.   *)
(***************************************************************************)
Areas == {"sync", "managed"}
KvKeys == {"a", "b"}
KvValues == {1, 2}
NoValue == 0 - 1
MaxPlatformCalls == 3

\* The contents of the managed area, set by the administrator
ManagedPolicies ==
    { [ k \in KvKeys |-> NoValue ], [ k \in KvKeys |-> 1 ],
      [ k \in KvKeys |-> IF k = "a" THEN 2 ELSE NoValue ] }

NoError == [thrown |-> FALSE, area |-> "", op |-> ""]

\* new Error('[storage.managed] <op> is not allowed (read-only by policy).')
NotAllowed(op) == [thrown |-> TRUE, area |-> "managed", op |-> op]

NotCalled == [op |-> "", area |-> "", error |-> NoError]

KvIdle ==
    /\ areas = [ a \in Areas |-> [ k \in KvKeys |-> NoValue ] ]
    /\ platformCalls = 0
    /\ kvCall = NotCalled

\* A guard that lets every area through
NoGuard(area, op) == NoError

\* if (area === 'managed') throw new Error(...)
ManagedGuard(area, op) ==
    IF area = "managed" THEN NotAllowed(op) ELSE NoError

\* One call: the guard, then the platform call `effect` on the area
KvOperation(op, area, effect) ==
    LET error == ManagedGuard(area, op)
    IN  /\ platformCalls < MaxPlatformCalls
        /\ kvCall' = [op |-> op, area |-> area, error |-> error]
        /\ IF error.thrown
           THEN UNCHANGED <<areas, platformCalls>>
           ELSE /\ areas' = [areas EXCEPT ![area] = effect]
                /\ platformCalls' = platformCalls + 1
        /\ UNCHANGED notKv

\* set(area, key, value)
KvSet(area, key, value) ==
    KvOperation("set", area, [areas[area] EXCEPT ![key] = value])

\* setAll(area, items)
KvSetAll(area, items) ==
    KvOperation("setAll", area,
                [ k \in KvKeys |-> IF k \in DOMAIN items THEN items[k]
                                   ELSE areas[area][k] ])

\* remove(area, key) with one key or an array of keys
KvRemove(area, keys) ==
    KvOperation("remove", area,
                [ k \in KvKeys |-> IF k \in keys THEN NoValue
                                   ELSE areas[area][k] ])

\* The platform callbacks of the earlier calls are all in
KvSettle ==
    /\ platformCalls > 0
    /\ platformCalls' = 0
    /\ UNCHANGED <<areas, kvCall, notKv>>

NextKv ==
    \/ \E area \in Areas, key \in KvKeys, value \in KvValues :
           KvSet(area, key, value)
    \/ \E area \in Areas, ks \in SUBSET KvKeys :
           \E items \in [ks -> KvValues] : KvSetAll(area, items)
    \/ \E area \in Areas, keys \in SUBSET KvKeys : KvRemove(area, keys)
    \/ KvSettle

\* C20: set, setAll and remove called with area 'managed' fail with an
\* explicit error naming the operation, for every key and value, and issue
\* no call to the platform storage API, so managed storage is unchanged.
C20_ManagedWritesFail ==
    [][/\ \A key \in KvKeys, value \in KvValues :
              KvSet("managed", key, value) =>
                  /\ kvCall'.error = NotAllowed("set")
                  /\ platformCalls' = platformCalls
                  /\ areas' = areas
       /\ \A ks \in SUBSET KvKeys :
              \A items \in [ks -> KvValues] :
                  KvSetAll("managed", items) =>
                      /\ kvCall'.error = NotAllowed("setAll")
                      /\ platformCalls' = platformCalls
                      /\ areas' = areas
       /\ \A keys \in SUBSET KvKeys :
              KvRemove("managed", keys) =>
                  /\ kvCall'.error = NotAllowed("remove")
                  /\ platformCalls' = platformCalls
                  /\ areas' = areas]_vars

\* ... and so the managed area keeps the administrator's contents
C20_ManagedUnchanged == areas["managed"] \in ManagedPolicies

\* A write to the managed area has failed after writes to the sync area
C20_Witness ==
    /\ kvCall.area = "managed"
    /\ kvCall.error.thrown
    /\ areas["managed"] # [ k \in KvKeys |-> NoValue ]
    /\ areas["sync"] # [ k \in KvKeys |-> NoValue ]

(***************************************************************************)
(* Options page: changing the type of an action (handleActionTypeChange    *)
(* and resetIncompatibleOptions).  An options object is a function of the  *)
(* option keys; a key it does not have holds AbsentKey, a key whose value  *)
(* is undefined holds None.  The other values are tokens.                  *)
(***************************************************************************)
AbsentKey == "#absent"

OptionKeys ==
    {"smart", "ignore", "copy", "delay", "close", "block", "reverse", "end",
     "unfocus"}

ACTIONS_CONFIG ==
    [ t \in ActionTypes |->
        CASE t = "window" ->
               <<"smart", "unfocus", "ignore", "delay", "block", "reverse">>
          [] t = "tabs" ->
               <<"smart", "end", "ignore", "delay", "close", "block",
                 "reverse">>
          [] t = "bookmark" -> <<"smart", "ignore", "block", "reverse">>
          [] t = "copy" ->
               <<"smart", "ignore", "copy", "block", "reverse">> ]

\* A default that is never defined
getDefaultOptionValueNone(optionKey) == None

\* getDefaultOptionValue(optionKey)
getDefaultOptionValue(optionKey) ==
    CASE optionKey = "smart" -> "false"
      [] optionKey = "ignore" -> "[0]"
      [] optionKey \in {"delay", "close"} -> "0"
      [] optionKey = "block" -> "true"
      [] optionKey \in {"reverse", "end", "unfocus"} -> "false"
      [] optionKey = "copy" -> "0"
      [] OTHER -> None

\* options[key]: undefined for a key the object does not have
Property(options, key) ==
    IF options[key] = AbsentKey THEN None ELSE options[key]

\* The forEach of resetIncompatibleOptions, from the i-th compatible key
RECURSIVE ResetFrom(_, _, _, _)
ResetFrom(currentOptions, compatibleOptions, i, newOptions) ==
    IF i > Len(compatibleOptions) THEN newOptions
    ELSE LET optionKey == compatibleOptions[i]
             currentValue == Property(currentOptions, optionKey)
         IN  ResetFrom(currentOptions, compatibleOptions, i + 1,
                 IF optionKey = "block" \/ optionKey = "reverse"
                 THEN newOptions
                 ELSE [newOptions EXCEPT
                         ![optionKey] =
                             IF currentValue # None THEN currentValue
                             ELSE getDefaultOptionValue(optionKey)])

\* A reset that starts from a copy of the current options
resetKeepingAll(currentOptions, newActionType) ==
    ResetFrom(currentOptions, ACTIONS_CONFIG[newActionType], 1,
              currentOptions)

\* resetIncompatibleOptions(currentOptions, newActionType)
resetIncompatibleOptions(currentOptions, newActionType) ==
    ResetFrom(currentOptions, ACTIONS_CONFIG[newActionType], 1,
              [ k \in OptionKeys |->
                  IF k \in {"block", "reverse"}
                  THEN Property(currentOptions, k) ELSE AbsentKey ])

\* The values a stored or edited options object may hold under a key
OptionValues(k) ==
    CASE k \in {"block", "smart"} -> {AbsentKey, None, "user"}
      [] k = "copy" -> {AbsentKey, "null", "user"}
      [] OTHER -> {AbsentKey, "user"}

OptionObjects ==
    { o \in [OptionKeys -> {AbsentKey, None, "null", "user"}] :
          \A k \in OptionKeys : o[k] \in OptionValues(k) }

NoOptions == [ k \in OptionKeys |-> AbsentKey ]

OptionsIdle ==
    optionsPage = [action |-> "tabs", options |-> NoOptions,
                   changed |-> FALSE, from |-> NoOptions]

\* handleActionTypeChange(id, newActionType)
ActionTypeChange(newActionType) ==
    /\ optionsPage' =
           [action |-> newActionType,
            options |-> resetIncompatibleOptions(optionsPage.options,
                                                 newActionType),
            changed |-> TRUE,
            from |-> optionsPage.options]
    /\ UNCHANGED <<cfgRun, upd, doc, notLib>>

NextOptions == \E t \in ActionTypes : ActionTypeChange(t)

Listed(t) == { ACTIONS_CONFIG[t][i] : i \in 1..Len(ACTIONS_CONFIG[t]) }

\* C21: resetIncompatibleOptions(o, t) returns an options record whose keys
\* are exactly block, reverse and the keys ACTIONS_CONFIG lists for t;
\* block and reverse carry o's values verbatim; every other listed key has
\* o's value when o defines it and getDefaultOptionValue(key) otherwise; no
\* key incompatible with t is present; o itself is not modified.
C21_ResetKeepsCompatible ==
    optionsPage.changed =>
        LET o == optionsPage.from
            r == optionsPage.options
            t == optionsPage.action
        IN  /\ { k \in OptionKeys : r[k] # AbsentKey } =
                   {"block", "reverse"} \cup Listed(t)
            /\ \A k \in {"block", "reverse"} : r[k] = Property(o, k)
            /\ \A k \in Listed(t) \ {"block", "reverse"} :
                   r[k] = IF o[k] \notin {AbsentKey, None} THEN o[k]
                          ELSE getDefaultOptionValue(k)
            /\ \A k \in OptionKeys \ Listed(t) : r[k] = AbsentKey

\* A change to `copy` of a window action that had `unfocus`, a null `copy`
\* and no `block`
C21_Witness ==
    /\ optionsPage.changed
    /\ optionsPage.action = "copy"
    /\ optionsPage.from["unfocus"] = "user"
    /\ optionsPage.from["copy"] = "null"
    /\ optionsPage.from["block"] = AbsentKey
    /\ optionsPage.from["smart"] = None
    /\ optionsPage.options["copy"] = "null"
    /\ optionsPage.options["smart"] = "false"
    /\ optionsPage.options["unfocus"] = AbsentKey

(***************************************************************************)
(* MySettingManager.migrate applied repeatedly to one settings object.     *)
(***************************************************************************)
MaxPasses == 2

\* Strings found after the mode of a stored `ignore` array
IgnoreStrings ==
    KeywordStrings \cup { <<>>, <<" ", "a">>, <<"b">>, <<"a", " ", "b">> }

\* Keywords as a pass of migrate leaves them
Tokens == { <<"a">>, <<"b">>, <<"a", " ", "b">> }

IgnoreValues ==
    {NoIgnore}
        \cup { Ignore(mode, <<>>) : mode \in {0, 1} }
        \cup { Ignore(mode, <<s>>) : mode \in {0, 1}, s \in IgnoreStrings }
        \cup { Ignore(mode, <<s, t>>) : mode \in {0, 1}, s, t \in Tokens }
        \cup { Ignore(1, << <<"a">>, <<"b">>, <<"a">> >>) }

MigrateInputs ==
    {EmptyObject}
        \cup { SettingsOf(<<>>) }
        \cup { SettingsOf(<<Action(i)>>) : i \in IgnoreValues }
        \cup { SettingsOf(<<Action(i), Action(j)>>) : i, j \in IgnoreValues }

MigrateIdle == cfgRun = [input |-> EmptyObject, results |-> <<>>]

\* await migrate(s), on the outcome of the previous pass
MigratePass ==
    /\ Len(cfgRun.results) < MaxPasses
    /\ LET currentSettings ==
               IF cfgRun.results = <<>> THEN cfgRun.input
               ELSE cfgRun.results[Len(cfgRun.results)]
       IN  /\ ~migrateThrows(currentSettings)
           /\ cfgRun' = [cfgRun EXCEPT
                           !.results = Append(@, migrate(currentSettings))]
    /\ UNCHANGED <<optionsPage, upd, doc, notLib>>

NextMigratePass == MigratePass

\* [mode, string]: the legacy pair
LegacyPair(ignore) == ignore.has /\ Len(ignore.rest) = 1

\* C22: the settings migration rewrites every action whose options.ignore
\* is the legacy pair [mode, commaSeparatedString] into [mode, ...keywords]
\* (split on commas, each token trimmed, empty tokens dropped), leaves every
\* action whose ignore is already an array of keywords unchanged, changes
\* nothing else in the settings, and is idempotent.
C22_MigrateRewritesLegacyOnce ==
    cfgRun.results # <<>> =>
        LET s == cfgRun.input.obj
            r == cfgRun.results[1].obj
        IN  /\ cfgRun.results[1].type = cfgRun.input.type
            /\ r.array = s.array
            /\ r.hasActions = s.hasActions
            /\ Len(r.actions) = Len(s.actions)
            /\ \A i \in 1..Len(s.actions) :
                   /\ r.actions[i].isNull = s.actions[i].isNull
                   /\ r.actions[i].ignore.has = s.actions[i].ignore.has
                   /\ r.actions[i].ignore.mode = s.actions[i].ignore.mode
                   /\ r.actions[i].ignore.rest =
                          IF LegacyPair(s.actions[i].ignore)
                          THEN Keywords(s.actions[i].ignore.rest[1])
                          ELSE s.actions[i].ignore.rest
            /\ \A p \in 2..Len(cfgRun.results) :
                   cfgRun.results[p] = cfgRun.results[1]

\* Two passes over a legacy pair next to an array of two keywords
C22_Witness ==
    /\ Len(cfgRun.results) = 2
    /\ cfgRun.input.obj.hasActions
    /\ Len(cfgRun.input.obj.actions) = 2
    /\ cfgRun.input.obj.actions[1].ignore.rest = << <<"a", ",", " ", "b">> >>
    /\ cfgRun.results[2].obj.actions[1].ignore.rest = << <<"a">>, <<"b">> >>
    /\ cfgRun.input.obj.actions[2].ignore.rest = << <<"a">>, <<"a", " ", "b">> >>
    /\ cfgRun.results[2].obj.actions[2] = cfgRun.input.obj.actions[2]

(***************************************************************************)
(* Background handler of LINKCLUMP_UPDATE: save, then broadcast to tabs.   *)
(* One step per await.                                                     *)
(***************************************************************************)
MaxTabs == 3

NoTabId == 0 - 1

\* payload?.settings: a payload without settings, or one of two settings
UpdatePayloads == {None, "S1", "S2"}

\* chrome.tabs.query({}): tabs with distinct ids, some without an id
TabLists ==
    { q \in SeqsUpTo(Tabs \cup {NoTabId}, MaxTabs) :
          \A i, j \in 1..Len(q) : (i # j /\ q[i] = q[j]) => q[i] = NoTabId }

NoUpdate ==
    [pc |-> "idle", settings |-> None, tabs |-> <<>>, i |-> 1,
     log |-> <<>>, answer |-> None]

UpdateIdle == upd = NoUpdate

Saved(settings) == [kind |-> "save", tab |-> NoTabId, settings |-> settings,
                    ok |-> TRUE]
Sent(tab, settings, ok) ==
    [kind |-> "send", tab |-> tab, settings |-> settings, ok |-> ok]

\* The for loop from the i-th tab: tabs without an id are passed over
RECURSIVE NextTab(_, _)
NextTab(tabs, i) ==
    IF i <= Len(tabs) /\ tabs[i] = NoTabId THEN NextTab(tabs, i + 1) ELSE i

\* After the loop: return { ok: true }
Continue(u) ==
    IF NextTab(u.tabs, u.i) > Len(u.tabs)
    THEN [u EXCEPT !.pc = "done", !.i = NextTab(u.tabs, u.i),
                   !.answer = "ok"]
    ELSE [u EXCEPT !.pc = "sending", !.i = NextTab(u.tabs, u.i)]

\* A loop without the try/catch: the rejection leaves the handler
AfterSendUncaught(u, ok) ==
    IF ok THEN Continue([u EXCEPT !.i = @ + 1])
    ELSE [u EXCEPT !.pc = "rejected"]

\* try { await bus.sendToTab(...) } catch {}
AfterSend(u, ok) == Continue([u EXCEPT !.i = @ + 1])

\* bus.on(MSG.LINKCLUMP_UPDATE, async (payload) => ...) is called
UpdateMessage(settings) ==
    /\ upd.pc = "idle"
    /\ upd' = IF settings # None
              THEN [upd EXCEPT !.pc = "saving", !.settings = settings]
              ELSE [upd EXCEPT !.pc = "done", !.answer = "ok"]
    /\ UNCHANGED <<optionsPage, cfgRun, doc, notLib>>

\* await settingsManager.save(payload.settings) settles
UpdateSaved(ok) ==
    /\ upd.pc = "saving"
    /\ upd' = IF ok
              THEN [upd EXCEPT !.pc = "querying",
                               !.log = Append(@, Saved(upd.settings))]
              ELSE [upd EXCEPT !.pc = "rejected"]
    /\ UNCHANGED <<optionsPage, cfgRun, doc, notLib>>

\* await chrome.tabs.query({}) resolves
UpdateQueried(tabs) ==
    /\ upd.pc = "querying"
    /\ upd' = Continue([upd EXCEPT !.tabs = tabs, !.i = 1])
    /\ UNCHANGED <<optionsPage, cfgRun, doc, notLib>>

\* await bus.sendToTab(tab.id, LINKCLUMP_UPDATE, {settings}) settles
UpdateSent(ok) ==
    /\ upd.pc = "sending"
    /\ upd' = AfterSend([upd EXCEPT
                           !.log = Append(@, Sent(upd.tabs[upd.i],
                                                  upd.settings, ok))], ok)
    /\ UNCHANGED <<optionsPage, cfgRun, doc, notLib>>

NextUpdate ==
    \/ \E settings \in UpdatePayloads : UpdateMessage(settings)
    \/ \E ok \in BOOLEAN : UpdateSaved(ok)
    \/ \E tabs \in TabLists : UpdateQueried(tabs)
    \/ \E ok \in BOOLEAN : UpdateSent(ok)

TabsWithId(tabs) == SelectSeq(tabs, LAMBDA t : t # NoTabId)

\* C23: handling LINKCLUMP_UPDATE with settings S: S is saved before any
\* tab is messaged; then an update message carrying S is sent to every open
\* tab that has an id; a failed delivery to one tab does not stop delivery
\* to the remaining tabs; the handler finally answers {ok: true}.
C23_SaveThenBroadcast ==
    /\ \A n \in 1..Len(upd.log) :
           upd.log[n].kind = "send" =>
               /\ n > 1
               /\ upd.log[1] = Saved(upd.settings)
               /\ upd.log[n].settings = upd.settings
    /\ (upd.pc = "sending" \/ (upd.pc = "done" /\ upd.settings # None)) =>
           /\ Len(upd.log) = 1 + Len(TabsWithId(SubSeq(upd.tabs, 1, upd.i - 1)))
           /\ \A n \in 2..Len(upd.log) :
                  /\ upd.log[n].kind = "send"
                  /\ upd.log[n].tab =
                         TabsWithId(SubSeq(upd.tabs, 1, upd.i - 1))[n - 1]
    /\ upd.pc = "done" => /\ upd.answer = "ok"
                          /\ upd.i > Len(upd.tabs)
    /\ upd.pc \in {"idle", "saving", "querying", "sending", "done",
                   "rejected"}
    /\ upd.pc = "rejected" => \A n \in 1..Len(upd.log) :
                                  upd.log[n].kind # "send"

\* The first of two tabs could not be reached and the second was messaged
C23_Witness ==
    /\ upd.pc = "done"
    /\ upd.answer = "ok"
    /\ upd.settings = "S2"
    /\ Len(upd.tabs) = 2
    /\ upd.log = <<Saved("S2"), Sent(upd.tabs[1], "S2", FALSE),
                   Sent(upd.tabs[2], "S2", TRUE)>>

MaxMounts == 3

MountIds == {"ces-root", "app", ""}
Contents == {"", "x"}

Element(id, content) == [id |-> id, content |-> content]

NoElement == 0 - 1

MountIdle == doc = [elements |-> <<>>, mounts |-> <<>>]

\* document.getElementById(id): the first element with that id; an empty
\* id matches no element
getElementById(elements, id) ==
    IF id # "" /\ \E e \in 1..Len(elements) : elements[e].id = id
    THEN CHOOSE e \in 1..Len(elements) :
             /\ elements[e].id = id
             /\ \A f \in 1..(e - 1) : elements[f].id # id
    ELSE NoElement

\* mount(id)
Mount(id) ==
    /\ Len(doc.mounts) < MaxMounts
    /\ LET el == getElementById(doc.elements, id)
           made == el = NoElement
           elements == IF made THEN Append(doc.elements, Element(id, ""))
                       ELSE doc.elements
           returned == IF made THEN Len(elements) ELSE el
       IN  doc' = [elements |-> elements,
                   mounts |-> Append(doc.mounts,
                                 [id |-> id, el |-> returned,
                                  content |-> elements[returned].content])]
    /\ UNCHANGED <<optionsPage, cfgRun, upd, notLib>>

\* el.innerHTML = content, by the page
SetContent(e, content) ==
    /\ e \in 1..Len(doc.elements)
    /\ doc.elements[e].content # content
    /\ doc' = [doc EXCEPT !.elements[e].content = content]
    /\ UNCHANGED <<optionsPage, cfgRun, upd, notLib>>

NextMount ==
    \/ \E id \in MountIds : Mount(id)
    \/ \E e \in 1..MaxMounts + 1, content \in Contents :
           SetContent(e, content)

Mounted == { doc.mounts[n].id : n \in 1..Len(doc.mounts) }

ElementsWithId(id) ==
    { e \in 1..Len(doc.elements) : doc.elements[e].id = id }

\* The statement, for the ids in `ids`
MountOnce(ids) ==
    /\ \A id \in ids \cap Mounted : Cardinality(ElementsWithId(id)) = 1
    /\ \A m, n \in 1..Len(doc.mounts) :
           (doc.mounts[m].id = doc.mounts[n].id /\ doc.mounts[m].id \in ids)
               => doc.mounts[m].el = doc.mounts[n].el

\* C25: after any sequence of mount(id) calls, the document contains
\* exactly one element per distinct id that was mounted; every call with a
\* given id returns that same element; a repeated call leaves the element's
\* existing content unchanged.
C25_MountIdempotent == MountOnce(MountIds)

\* C25, for ids that are not the empty string
C25_MountIdempotentNonEmptyId == MountOnce(MountIds \ {""})

\* C25: a call leaves the content of every element as it was
C25_MountKeepsContent ==
    [][\A id \in MountIds :
          Mount(id) =>
              \A e \in 1..Len(doc.elements) :
                  doc'.elements[e] = doc.elements[e]]_vars

\* mount('') twice: two elements with the empty id, one per call
C25_TwoEmptyIdElements ==
    /\ Len(doc.mounts) = 2
    /\ doc.mounts[1].id = ""
    /\ doc.mounts[2].id = ""
    /\ doc.mounts[1].el # doc.mounts[2].el
    /\ Cardinality(ElementsWithId("")) = 2

\* A second mount('app') returned the element whose content the page set
C25_RemountKeptContent ==
    /\ Len(doc.mounts) = 2
    /\ doc.mounts[1].id = "app"
    /\ doc.mounts[2].id = "app"
    /\ doc.mounts[2].el = doc.mounts[1].el
    /\ doc.mounts[2].content = "x"

(***************************************************************************)
(* Claims about the end of a gesture                                       *)
(***************************************************************************)
\* The state in which the timer callback calls detectLinks
FinalWorld == Evaluated(updateBox(World, core.timer.x, core.timer.y))

OverlappedAt(w) ==
    { i \in 1..Len(w.core.links) : Overlaps(w.core.links[i], w.dom.box) }

ImportantAt(w) == { i \in OverlappedAt(w) : w.core.links[i].important }

\* The links in selection for the box of `w`: the important ones under the
\* box if there is one, every link under the box otherwise
QualifyingAt(w) ==
    IF ImportantAt(w) # {} THEN ImportantAt(w) ELSE OverlappedAt(w)

\* The {url, title} records of the links `among`, in candidate order
LinkRecords(links, among) ==
    LET at == SelectSeq([ i \in 1..Len(links) |-> i ],
                        LAMBDA i : i \in among)
    IN  [ k \in 1..Len(at) |->
            [url |-> links[at[k]].href, title |-> links[at[k]].title] ]

Stopped(c, d) ==
    /\ ~c.boxOn
    /\ c.links = <<>>
    /\ d.listeners \cap GestureListeners = {}
    /\ ~d.box.visible

\* The callback sent the activation for the final box and stopped
FinalActivation ==
    /\ gesture'.sent = gesture.sent + 1
    /\ gesture'.lastSent =
           [urls |-> LinkRecords(core.links, QualifyingAt(FinalWorld)),
            setting |-> core.currentSetting]
    /\ Stopped(core', dom')
    /\ ~core'.timer.set

C26_TimerSendsWhenSmartSettled ==
    [][(/\ core.timer.set
        /\ core.boxOn
        /\ BounceTimerFires
        /\ QualifyingAt(FinalWorld) # {}
        /\ core.smartSelect = (ImportantAt(FinalWorld) # {}))
           => FinalActivation]_vars

\* The callback met a final box that changes the smart-select state: it
\* stopped the gesture without sending
C26_TimerStopsWithoutSending ==
    [][(/\ core.timer.set
        /\ core.boxOn
        /\ BounceTimerFires
        /\ QualifyingAt(FinalWorld) # {}
        /\ core.smartSelect # (ImportantAt(FinalWorld) # {}))
           => /\ gesture'.sent = gesture.sent
              /\ gesture'.lastSent = gesture.lastSent
              /\ Stopped(core', dom')]_vars

\* C27: a mouse-down with a matching button+key that arrives while a
\* mouse-up debounce timer is pending cancels that timer, so the timer's
\* finalization never runs and sends no activation, and the mouse-down
\* creates no new box and attaches no new gesture listeners.
C27_SecondClickCancelsTimer ==
    [][\A button \in Buttons, p \in DownPositions :
          (/\ core.timer.set
           /\ allowSelection([core EXCEPT !.mouseButton = button])
           /\ MouseDown(button, p[1], p[2]))
             => /\ ~core'.timer.set
                /\ dom' = dom
                /\ gesture' = gesture
                /\ core'.boxOn = core.boxOn
                /\ core'.links = core.links]_vars

\* The timer of a gesture with links under its box is pending, and a
\* mouse-down with the button of a configured action and its key pressed
\* can arrive
C27_Witness ==
    /\ core.timer.set
    /\ core.boxOn
    /\ OverlappedAt(World) # {}
    /\ "mousedown" \in dom.listeners
    /\ \E button \in Buttons :
           /\ button # core.mouseButton
           /\ allowSelection([core EXCEPT !.mouseButton = button])

\* C28: a mouse-move handled while no configured action matches the
\* current button+key, no debounce timer is pending and the one-shot
\* scroll-ignore flag is clear stops the gesture (gesture listeners removed,
\* box hidden if it was active), and no activation message is sent for that
\* gesture.
C28_MoveWithoutActionStops ==
    /\ [](("mousemove" \in dom.listeners
             /\ ~core.timer.set
             /\ ~core.scrollBugIgnore
             /\ ~allowSelection(core)) =>
              \A p \in Positions :
                  LET after == handleMouseMove(World, p[1], p[2])
                  IN  /\ Stopped(after.core, after.dom)
                      /\ ~after.log.open
                      /\ ~after.core.timer.set
                      /\ after.log.sent = 0)
    /\ [][(~gesture.open /\ ~core.timer.set /\ gesture.sent = 0)
             => (gesture'.sent = 0 /\ ~core'.timer.set)]_vars

\* The key was released during a drag over links: the next mouse-move can
\* only stop the gesture
C28_Witness ==
    /\ "mousemove" \in dom.listeners
    /\ core.boxOn
    /\ OverlappedAt(World) # {}
    /\ ~core.timer.set
    /\ ~core.scrollBugIgnore
    /\ ~allowSelection(core)

C30_LoopEndsWithinTwoCalls ==
    /\ gesture.detectCalls <= 2
    /\ (core.settings.present /\ dom.box.created) =>
           \A p \in Positions :
               LET after == DetectUntilTrue(
                                Evaluated(updateBox(World, p[1], p[2])), 1).log
               IN  after.stable /\ after.detectCalls <= 2

\* A mouse-move whose loop called detectLinks twice
C30_Witness ==
    /\ gesture.detectCalls = 2
    /\ gesture.stable
    /\ core.boxOn

(***************************************************************************)
(* What a migration reads through its context                              *)
(***************************************************************************)
\* A context that answers from the storage as the run found it
getAllStorageAtStart(area) == IF area = "sync" THEN StartSync ELSE StartLocal

\* context.getAllStorage(area) / getStorage(area, key): read from
\* chrome.storage at the time of the call
getAllStorage(area) == IF area = "sync" THEN syncStore ELSE localStore

\* The loop of a run is at a migration it is about to call or to skip
InLoop == run.n >= 1 /\ run.pc \in {"fresh", "upgrade"}

\* C31: within one runMigrations run, each migration's returned patch is
\* written to its storage area before the next migration's migrate() is
\* called, so every read a later step makes through its context observes
\* the patches of all earlier steps of that run.
C31_LaterStepsSeeEarlierPatches ==
    InLoop =>
        /\ written = PatchWrites(run.executed)
        /\ \A area \in {"sync", "local"} :
               getAllStorage(area) =
                   AfterWrites(getAllStorageAtStart(area), area,
                               PatchWrites(run.executed))

\* The second migration is about to be called and reads the patch of the
\* first
C31_Witness ==
    /\ InLoop
    /\ run.i = 2
    /\ Len(migrations) = 2
    /\ Selected(migrations[2])
    /\ run.executed = <<1>>
    /\ migrations[1].does = "local"
    /\ getAllStorage("local").other = PatchOf(1)["other"]
    /\ StartLocal.other # PatchOf(1)["other"]

(***************************************************************************)
(* part_009 65-90: compareVersions applied to well-formed versions.  A     *)
(* well-formed version is given by its components, one to VersionParts     *)
(* non-negative integers, and written as the manifest writes it: the       *)
(* components in decimal, joined with dots.                                *)
(***************************************************************************)
VersionParts == 3
ComponentValues == {0, 2, 10}

WellFormedVersions == UNION { [1..n -> ComponentValues] : n \in 1..VersionParts }

RECURSIVE Decimal(_)
Decimal(n) ==
    LET last == CHOOSE c \in Digits : DigitValue(c) = n % 10
    IN  IF n < 10 THEN <<last>> ELSE Decimal(n \div 10) \o <<last>>

RECURSIVE Dotted(_)
Dotted(parts) ==
    IF Len(parts) = 1
    THEN Decimal(parts[1])
    ELSE Decimal(parts[1]) \o <<".">> \o Dotted(Tail(parts))

VersionString(parts) == Str(Dotted(parts))

NotCompared ==
    [a |-> <<0>>, b |-> <<0>>, c |-> <<0>>, done |-> FALSE,
     ab |-> 0, ba |-> 0, bc |-> 0, ac |-> 0]

CompareIdle == cmp = NotCompared

\* compareVersions is called on each pair of the three versions
Compare ==
    /\ ~cmp.done
    /\ LET a == VersionString(cmp.a)
           b == VersionString(cmp.b)
           c == VersionString(cmp.c)
       IN  cmp' = [cmp EXCEPT !.done = TRUE,
                              !.ab = compareVersions(a, b),
                              !.ba = compareVersions(b, a),
                              !.bc = compareVersions(b, c),
                              !.ac = compareVersions(a, c)]
    /\ UNCHANGED <<notExt, alarmSys, sweep, norm, peer>>

NextCompare == Compare

\* The order of two versions as numbers, component by component, a missing
\* component counting as 0
Component(v, i) == IF i <= Len(v) THEN v[i] ELSE 0

NumericOrder(a, b) ==
    LET differ == { i \in 1..VersionParts : Component(a, i) # Component(b, i) }
    IN  IF differ = {}
        THEN 0
        ELSE LET i == CHOOSE i \in differ : \A j \in differ : i <= j
             IN  IF Component(a, i) < Component(b, i) THEN 0 - 1 ELSE 1

\* C32: on dot-separated non-negative integer versions compareVersions
\* is a total order: it compares component by component as numbers
\* ('2.2.0' is below '2.10.0'), a missing trailing component counts as 0
\* ('2.10' equals '2.10.0'), compare(a,b) = -compare(b,a), and it is
\* transitive.
C32_TotalOrder ==
    cmp.done =>
        /\ cmp.ab = NumericOrder(cmp.a, cmp.b)
        /\ cmp.bc = NumericOrder(cmp.b, cmp.c)
        /\ cmp.ac = NumericOrder(cmp.a, cmp.c)
        /\ cmp.ab = 0 - cmp.ba
        /\ (cmp.ab <= 0 /\ cmp.bc <= 0) => cmp.ac <= 0
        /\ (cmp.ab <= 0 /\ cmp.bc < 0) => cmp.ac < 0
        /\ (cmp.ab < 0 /\ cmp.bc <= 0) => cmp.ac < 0

C32_Witness ==
    /\ cmp.done
    /\ cmp.a = <<2, 2, 0>> /\ cmp.b = <<2, 10, 0>> /\ cmp.c = <<2, 10>>
    /\ cmp.ab = 0 - 1 /\ cmp.ba = 1 /\ cmp.bc = 0 /\ cmp.ac = 0 - 1

(***************************************************************************)
(* linkclump.ts 45-85: what the ACTIVATE handler answers.                  *)
(***************************************************************************)
HasBoth == payload.hasUrls /\ payload.hasSetting

NoPlatformCall == ~handed.called /\ creations = <<>> /\ ~failed

\* C33: every LINKCLUMP_ACTIVATE request whose payload has both a link
\* list and an action is answered {ok: true}, whether the platform calls
\* made for the action succeed or fail; a request missing either field is
\* answered {ok: false} and causes no platform call; a list that is empty
\* after filtering and deduplication is answered {ok: true} with no
\* platform call.
C33_AlwaysAnswersOk ==
    hpc = "responded" =>
        /\ HasBoth => response = OkTrue
        /\ ~HasBoth => response = OkFalse /\ NoPlatformCall
        /\ (HasBoth /\ ~FilterThrows(payload.urls)
                /\ Deduplicated(payload) = <<>>) => NoPlatformCall

\* The same for the lists that hold no null entry
C33_ExceptNullEntry ==
    hpc = "responded" =>
        /\ (HasBoth /\ ~FilterThrows(payload.urls)) => response = OkTrue
        /\ ~HasBoth => response = OkFalse /\ NoPlatformCall
        /\ (HasBoth /\ ~FilterThrows(payload.urls)
                /\ Deduplicated(payload) = <<>>) => NoPlatformCall

\* A list with a null entry: the filter callback throws, the handler's
\* promise rejects and the bus answers with the ErrorResponse
C33_NullEntryAnswersError ==
    (hpc = "responded" /\ HasBoth /\ FilterThrows(payload.urls))
        => response = ErrorResponse /\ NoPlatformCall

C33_Witness ==
    /\ hpc = "responded" /\ HasBoth
    /\ payload.urls = <<Link("a", "t1"), NullEntry>>
    /\ response = ErrorResponse

C33_FailedCallWitness ==
    /\ hpc = "responded" /\ HasBoth /\ failed /\ response = OkTrue
    /\ Len(creations) = 1 /\ creations[1].outcome = "rejected"

(***************************************************************************)
(* alarms.ts 10-38 and 81-92: ensureAlarm, setupAlarms and the onStartup   *)
(* and onInstalled listeners.  chrome.alarms keeps at most one alarm per   *)
(* name and serves the requests of one extension in the order they were    *)
(* issued; the callback of chrome.alarms.get runs in a later turn.         *)
(***************************************************************************)
MaxEvents == 3
MaxFirings == 2

POLL == "poll"
DAILY_CLEANUP == "daily_cleanup"
AlarmNames == {POLL, DAILY_CLEANUP}
InstallReasons == {"install", "update", "chrome_update"}

NoAlarm == 0

Request(op, name, r) == [op |-> op, name |-> name, run |-> r]

SetupRun ==
    [pc |-> "get", name |-> POLL, existing |-> FALSE,
     found |-> [n \in AlarmNames |-> "unknown"],
     created |-> [n \in AlarmNames |-> 0]]

NoAlarms == [n \in AlarmNames |-> NoAlarm]

AlarmsIdle == alarmSys = [alarms |-> NoAlarms, queue |-> <<>>, runs |-> <<>>]

\* An ensureAlarm that creates the alarm whatever chrome.alarms.get found
ensureAlarmAlways(existing, name, r) == <<Request("create", name, r)>>

\* ensureAlarm past its await: if (!existing) create()
ensureAlarm(existing, name, r) ==
    IF ~existing THEN <<Request("create", name, r)>> ELSE <<>>

\* setupAlarms up to its first await: chrome.alarms.get(POLL, r) is issued
setupAlarms(a, r) ==
    [a EXCEPT !.runs = Append(@, SetupRun),
              !.queue = Append(@, Request("get", POLL, r))]

\* chrome.runtime.onStartup
OnStartup ==
    /\ Len(alarmSys.runs) < MaxEvents
    /\ alarmSys' = setupAlarms(alarmSys, Len(alarmSys.runs) + 1)
    /\ UNCHANGED <<notExt, cmp, sweep, norm, peer>>

\* chrome.runtime.onInstalled({ reason }): chrome.alarms.clearAll() is
\* issued and not awaited, then setupAlarms() is called
OnInstalled(reason) ==
    /\ Len(alarmSys.runs) < MaxEvents
    /\ IF reason \in {"install", "update"}
       THEN alarmSys' =
                setupAlarms([alarmSys EXCEPT
                                !.queue = Append(@, Request("clearAll", POLL, 0))],
                            Len(alarmSys.runs) + 1)
       ELSE alarmSys' = alarmSys
    /\ UNCHANGED <<notExt, cmp, sweep, norm, peer>>

\* The platform serves the oldest request
Serve ==
    /\ alarmSys.queue # <<>>
    /\ LET q == Head(alarmSys.queue)
           a == [alarmSys EXCEPT !.queue = Tail(@)]
       IN  alarmSys' =
               CASE q.op = "clearAll" -> [a EXCEPT !.alarms = NoAlarms]
                 [] q.op = "create" -> [a EXCEPT !.alarms[q.name] = q.run]
                 [] q.op = "get" ->
                        [a EXCEPT !.runs[q.run].pc = "callback",
                                  !.runs[q.run].existing =
                                      (a.alarms[q.name] # NoAlarm)]
    /\ UNCHANGED <<notExt, cmp, sweep, norm, peer>>

\* The callback of chrome.alarms.get runs: ensureAlarm returns, and
\* setupAlarms goes on to the next alarm or ends
GetCallback(r) ==
    /\ r \in 1..Len(alarmSys.runs)
    /\ alarmSys.runs[r].pc = "callback"
    /\ LET this == alarmSys.runs[r]
           issued == ensureAlarm(this.existing, this.name, r)
           after == [this EXCEPT
                        !.found[this.name] =
                            IF this.existing THEN "present" ELSE "absent",
                        !.created[this.name] = @ + Len(issued)]
       IN  alarmSys' =
               IF this.name = POLL
               THEN [alarmSys EXCEPT
                        !.queue = @ \o issued
                                    \o <<Request("get", DAILY_CLEANUP, r)>>,
                        !.runs[r] = [after EXCEPT !.pc = "get",
                                                  !.name = DAILY_CLEANUP]]
               ELSE [alarmSys EXCEPT
                        !.queue = @ \o issued,
                        !.runs[r] = [after EXCEPT !.pc = "done"]]
    /\ UNCHANGED <<notExt, cmp, sweep, norm, peer>>

NextAlarms ==
    \/ OnStartup
    \/ \E reason \in InstallReasons : OnInstalled(reason)
    \/ Serve
    \/ \E r \in 1..MaxEvents : GetCallback(r)

FullyHandled ==
    /\ alarmSys.queue = <<>>
    /\ alarmSys.runs # <<>>
    /\ \A r \in 1..Len(alarmSys.runs) : alarmSys.runs[r].pc = "done"

\* C34: once every startup and install/update event has been fully
\* handled, the `poll` alarm and the `daily_cleanup` alarm both exist (one
\* of each: an alarm is kept by name); a setup run that found an alarm
\* present has issued no chrome.alarms.create for it.
C34_BothAlarmsOnce ==
    /\ FullyHandled => \A n \in AlarmNames : alarmSys.alarms[n] # NoAlarm
    /\ \A r \in 1..Len(alarmSys.runs) : \A n \in AlarmNames :
           /\ alarmSys.runs[r].found[n] = "present"
                  => alarmSys.runs[r].created[n] = 0
           /\ alarmSys.runs[r].created[n] <= 1
           /\ alarmSys.alarms[n] = r => alarmSys.runs[r].found[n] = "absent"

\* An install event arrives while a startup run is between its two
\* alarms; the startup run found `poll` present and left it alone
C34_Witness ==
    /\ FullyHandled
    /\ Len(alarmSys.runs) = 2
    /\ alarmSys.runs[1].found[POLL] = "present"
    /\ alarmSys.runs[1].found[DAILY_CLEANUP] = "absent"
    /\ alarmSys.alarms[POLL] = 2
    /\ alarmSys.alarms[DAILY_CLEANUP] = 1

(***************************************************************************)
(* alarms.ts 60-73: the DAILY_CLEANUP branch of the onAlarm listener, with *)
(* kv.getAll and kv.remove (part_010 70-80, 125-140).  A key is a sequence *)
(* of characters; a storage area is the set of keys it holds.              *)
(***************************************************************************)
TEMP_PREFIX == <<"t", "e", "m", "p", "_">>

SessionKeys ==
    { <<"t", "e", "m", "p", "_">>, <<"t", "e", "m", "p", "_", "a">>,
      <<"t", "e", "m", "p">>, <<"a", "t", "e", "m", "p", "_">>,
      <<"T", "e", "m", "p", "_", "a">> }

OtherKeys == { <<"t", "e", "m", "p", "_", "a">>, <<"v">> }

\* String.prototype.startsWith
startsWith(k, prefix) ==
    Len(k) >= Len(prefix) /\ \A i \in 1..Len(prefix) : k[i] = prefix[i]

\* The argument of StorageArea.get: null / undefined, or an object of
\* defaults with these keys
EveryItem == [all |-> TRUE, keys |-> {}]
Defaults(keys) == [all |-> FALSE, keys |-> keys]

\* StorageArea.get(query): null or undefined gives every stored item; an
\* object of defaults gives its own keys (stored or default value), none
\* when it is empty
bucketGet(bucket, query) == IF query.all THEN bucket ELSE query.keys

\* kv.getAll(area, defaults): bucket.get(defaults ?? undefined, ...)
getAll(bucket, defaults) == bucketGet(bucket, defaults)

\* for (const k of typedKeys(data)) if (k.startsWith('temp_')) remove(k)
RECURSIVE RemoveTemp(_, _)
RemoveTemp(bucket, data) ==
    IF data = {}
    THEN bucket
    ELSE LET k == CHOOSE k \in data : TRUE
         IN  RemoveTemp(IF startsWith(k, TEMP_PREFIX) THEN bucket \ {k}
                        ELSE bucket,
                        data \ {k})

NoSweep ==
    [session |-> {}, sync |-> {}, local |-> {}, pc |-> "idle",
     start |-> {}, data |-> {}, fired |-> 0]

SweepIdle == sweep = NoSweep

\* The DAILY_CLEANUP alarm fires: kv.getAll('session', {}) is called
DailyCleanupFires ==
    /\ sweep.pc \in {"idle", "done"}
    /\ sweep.fired < MaxFirings
    /\ sweep' = [sweep EXCEPT !.pc = "getAll", !.start = sweep.session,
                              !.data = {}, !.fired = @ + 1]
    /\ UNCHANGED <<notExt, cmp, alarmSys, norm, peer>>

\* getAll resolves and the loop over its keys runs to its end
CleanupLoop ==
    /\ sweep.pc = "getAll"
    /\ LET data == getAll(sweep.session, Defaults({}))
       IN  sweep' = [sweep EXCEPT !.pc = "done", !.data = data,
                                  !.session = RemoveTemp(@, data)]
    /\ UNCHANGED <<notExt, cmp, alarmSys, norm, peer>>

\* Some other code of the extension stores a session key between firings
SessionSet(k) ==
    /\ sweep.pc \in {"idle", "done"}
    /\ k \notin sweep.session
    /\ sweep' = [sweep EXCEPT !.session = @ \cup {k}, !.pc = "idle"]
    /\ UNCHANGED <<notExt, cmp, alarmSys, norm, peer>>

NextSweep ==
    \/ DailyCleanupFires
    \/ CleanupLoop
    \/ \E k \in SessionKeys : SessionSet(k)

TempKeys(bucket) == { k \in bucket : startsWith(k, TEMP_PREFIX) }

\* C35: a `daily_cleanup` firing removes from session storage exactly the
\* keys whose name begins with `temp_`; every other session key, and every
\* key of the other storage areas, is left unchanged.
C35_RemovesTempKeys ==
    sweep.pc = "done" =>
        /\ sweep.session = sweep.start \ TempKeys(sweep.start)
        /\ sweep.sync = OtherKeys /\ sweep.local = OtherKeys

\* What the firing does: getAll('session', {}) asks for the keys of an
\* empty object and gets none, so nothing is removed
C35_RemovesNothing ==
    sweep.pc = "done" =>
        /\ sweep.data = {}
        /\ sweep.session = sweep.start
        /\ sweep.sync = OtherKeys /\ sweep.local = OtherKeys

C35_Witness ==
    /\ sweep.pc = "done"
    /\ sweep.start = { <<"t", "e", "m", "p", "_", "a">>, <<"t", "e", "m", "p">> }
    /\ sweep.session = sweep.start

(***************************************************************************)
(* utils.ts 75-98: toErrorResponse applied to the values a handler can     *)
(* throw or reject with, and applied again to what came out.               *)
(***************************************************************************)
MaxNormalised == 2

ANumber == JsValue("number", FALSE, FALSE, "absent", "absent", None)
MessageIsNumber == JsValue("object", FALSE, FALSE, "object", "number", None)
ErrorIsUndefined == JsValue("object", FALSE, FALSE, "undefined", "absent", None)

Thrown == Throwable \cup { PlainObject, ANumber, MessageIsNumber, ErrorIsUndefined }

NormaliseIdle == norm = <<>>

Threw == [threw |-> TRUE, value |-> Undefined]
Returned(v) == [threw |-> FALSE, value |-> v]

\* One call of toErrorResponse: what it returns, or that it threw
Called(v) == IF toErrorResponseThrows(v) THEN Threw ELSE Returned(toErrorResponse(v))

NotCalledAgain == [called |-> FALSE, threw |-> FALSE, value |-> Undefined]

\* toErrorResponse(v) is called
Normalise(v) ==
    /\ Len(norm) < MaxNormalised
    /\ norm' = Append(norm, [v |-> v, first |-> Called(v), twice |-> NotCalledAgain])
    /\ UNCHANGED <<notExt, cmp, alarmSys, sweep, peer>>

\* toErrorResponse is called on what the first call returned
NormaliseAgain(i) ==
    /\ i \in 1..Len(norm)
    /\ ~norm[i].first.threw
    /\ ~norm[i].twice.called
    /\ norm' = [norm EXCEPT ![i].twice =
                   [called |-> TRUE,
                    threw |-> Called(norm[i].first.value).threw,
                    value |-> Called(norm[i].first.value).value]]
    /\ UNCHANGED <<notExt, cmp, alarmSys, sweep, peer>>

NextNormalise ==
    \/ \E v \in Thrown : Normalise(v)
    \/ \E i \in 1..MaxNormalised : NormaliseAgain(i)

Normalises(n) ==
    /\ ~n.first.threw
    /\ ~isErrorResponseThrows(n.first.value)
    /\ isErrorResponse(n.first.value)
    /\ (~isErrorResponseThrows(n.v) /\ isErrorResponse(n.v)) => n.first.value = n.v
    /\ n.twice.called => ~n.twice.threw /\ n.twice.value = n.first.value

\* C36: for every value v a handler can throw or reject with (Error
\* objects, strings, null, undefined, objects whose `error` field is null
\* or not an object, ...) toErrorResponse(v) returns, without throwing, a
\* value r with isErrorResponse(r) true; when isErrorResponse(v) is true r
\* is v itself, so toErrorResponse(toErrorResponse(v)) = toErrorResponse(v).
C36_NormalisesEveryValue ==
    \A i \in 1..Len(norm) : Normalises(norm[i])

\* The same for every value but the objects whose `error` field is null
C36_ExceptNullError ==
    \A i \in 1..Len(norm) : norm[i].v # ErrorIsNull => Normalises(norm[i])

\* On an object whose `error` field is null toErrorResponse throws
C36_NullErrorThrows ==
    \A i \in 1..Len(norm) : norm[i].v = ErrorIsNull => norm[i].first.threw

C36_Witness ==
    /\ Len(norm) = 2
    /\ norm[1].v = ErrorIsNull /\ norm[1].first.threw
    /\ norm[2].v = GivenErrorResponse /\ norm[2].twice.called
    /\ norm[2].twice.value = GivenErrorResponse

(***************************************************************************)
(* part_004 165-182, 403-407, 536-576: where an activation is sent from.   *)
(***************************************************************************)
Sends == gesture'.sent # gesture.sent /\ gesture'.sent # 0

\* C37: for every sequence of mouse, key, blur, wheel and timer events at
\* most one LINKCLUMP_ACTIVATE message is sent between a gesture-starting
\* mouse-down and the next stop(), and an activation is sent only by a
\* firing of the mouse-up timer, never by a mouse-move or an auto-scroll
\* detection pass.
C37_OneActivationFromTimer ==
    /\ [](gesture.sent <= 1)
    /\ [](\A p \in Positions :
            /\ handleMouseMove(World, p[1], p[2]).log.sent = gesture.sent
            /\ \A speed \in ScrollSpeeds :
                   detectLinks(updateBox(World, core.mouseX, core.mouseY + speed),
                               FALSE).w.log.sent = gesture.sent)
    /\ [][Sends => (core.timer.set /\ ~core'.timer.set /\ BounceTimerFires
                      /\ gesture.sent = 0 /\ ~gesture'.open)]_vars

C37_Witness ==
    /\ gesture.sent = 1
    /\ ~gesture.open
    /\ gesture.scrolls > 0
    /\ ~core.timer.set

(***************************************************************************)
(* part_004 165-182, 490-576: what follows the release of the button in a  *)
(* gesture whose box is active.  The timer and the interval callbacks run  *)
(* without any input; input events need not come.                          *)
(***************************************************************************)
GestureIdle(w) ==
    /\ ~w.core.boxOn
    /\ w.dom.box.created => ~w.dom.box.visible /\ ~w.dom.box.labelVisible
    /\ w.core.links = <<>>
    /\ w.dom.listeners \cap GestureListeners = {}

ActiveAtRelease == core.boxOn /\ "mouseup" \in dom.listeners

\* C38: every gesture whose box became active returns to idle after the
\* mouse button is released (box and highlight boxes out of view, the
\* gesture's mousemove / mouseup / wheel / mouseout listeners removed, the
\* auto-scroll interval cleared), whether or not the trigger is still
\* matched at the release and without any further input event: the
\* release leaves the gesture idle or leaves the timer pending, a pending
\* timer runs (or is cancelled by an input), its callback leaves the
\* gesture idle, and the interval is cleared by one of its own ticks.
C38_ReleaseReturnsToIdle ==
    /\ [](ActiveAtRelease =>
            \A p \in Positions :
                LET after == handleMouseUp(World, p[1], p[2])
                IN  after.core.timer.set \/ GestureIdle(after))
    /\ [][(core.timer.set /\ BounceTimerFires) => GestureIdle(World')]_vars
    /\ (core.timer.set ~> ~core.timer.set)
    /\ (core.scrollId ~> ~core.scrollId)

\* With the trigger still matched at the release the gesture does return
\* to idle without further input
C38_MatchedReleaseReturnsToIdle ==
    /\ [](ActiveAtRelease /\ allowSelection(core) =>
            \A p \in Positions :
                handleMouseUp(World, p[1], p[2]).core.timer.set)
    /\ [][(core.timer.set /\ BounceTimerFires) => GestureIdle(World')]_vars

\* The callback of a pending timer can run and leaves no timer; a tick of
\* a running interval can clear it
C38_CallbacksRun ==
    /\ [](core.timer.set => (ENABLED BounceTimerFires))
    /\ [](core.scrollId => (ENABLED ScrollStops))
    /\ [][(core.timer.set /\ BounceTimerFires) => ~core'.timer.set]_vars
    /\ [][(core.scrollId /\ ScrollStops) => ~core'.scrollId]_vars

\* With the trigger no longer matched the release changes nothing: the box
\* stays in view and the listeners stay attached until a mouse-move comes
C38_UnmatchedReleaseLeavesBox ==
    (ActiveAtRelease /\ ~allowSelection(core) /\ ~core.timer.set) =>
        \A p \in Positions :
            LET after == handleMouseUp(World, p[1], p[2])
            IN  /\ after.core.boxOn /\ after.dom.box.visible
                /\ ~after.core.timer.set
                /\ GestureListeners \subseteq after.dom.listeners

C38_Witness ==
    /\ ActiveAtRelease /\ ~allowSelection(core) /\ ~core.timer.set
    /\ ~core.scrollId
    /\ dom.box.visible

(***************************************************************************)
(* part_009 116-253 over several releases: between two runs the extension  *)
(* is updated, which changes the manifest version and the configured list  *)
(* of migrations.  rollbackVersion (260-264) is never called.              *)
(***************************************************************************)
ReleaseLists ==
    UNION { [ 1..n -> [version : {Str(v) : v \in Versions},
                       does : {"sync", "throws"}] ] : n \in 0..1 }

\* The extension is updated between two runs
Release(version, list) ==
    /\ run.pc = "done"
    /\ run.n < MaxRuns
    /\ manifest' = version
    /\ migrations' = list
    /\ run' = [run EXCEPT !.pc = "idle"]
    /\ UNCHANGED <<lastRun, storeVars>>

NextReleases ==
    \/ NextMigration
    \/ \E v \in Versions, list \in ReleaseLists :
           Release(Str(v), list) /\ UNCHANGED notMig

\* The stored version does not go down: there was none, or the new one
\* compares equal to it or above it
NotBelow(new, old) ==
    ~Truthy(old) \/ (Truthy(new) /\ compareVersions(new, old) >= 0)

\* A run that ended without error and did not find a newer stored version
CompletedNonDowngrade ==
    /\ RunFinished
    /\ run.outcome = "resolved"
    /\ ~(Truthy(run.storedVersion)
           /\ compareVersions(run.storedVersion, manifest) > 0)

C39_RaisedWitness ==
    /\ CompletedNonDowngrade
    /\ run.n = 2
    /\ lastRun.sync.version = Str(<<"1", ".", "2">>)
    /\ syncStore.version = Str(<<"2">>)
    /\ run.executed = <<1>>

(***************************************************************************)
(* setting.ts 41-62, 87-95 and part_007 38-67: load() of one context while *)
(* the settings manager of another context (options page, background       *)
(* worker) writes to the same chrome.storage.sync.  The other context's    *)
(* save(), reset() and update() are taken at the moment of their write.    *)
(***************************************************************************)
MaxPeerWrites == 2

NoPeer == [writes |-> 0, last |-> None]

PeerIdle == peer = NoPeer

notPeer == <<actVars, sndVars, busVars, localStore, written, setVars,
             migVars, coreVars, polVars, kvVars, libVars,
             cmp, alarmSys, sweep, norm>>

PeerWrites(op, items) ==
    /\ peer.writes < MaxPeerWrites
    /\ syncStore' = ApplyItems(syncStore, items)
    /\ peer' = [writes |-> peer.writes + 1, last |-> op]
    /\ UNCHANGED notPeer

\* save(settings) in the other context
PeerSave(s) == PeerWrites("save", kvSet("settings", s))

\* reset() in the other context
PeerReset == PeerWrites("reset", InitItems(variant))

\* update() in the other context: it initialises, or migrates what it loads
PeerUpdate ==
    /\ variant = "versioned"
    /\ IF ~isInit(syncStore.version)
       THEN PeerWrites("update", InitItems(variant))
       ELSE /\ ~isLatest(syncStore.version)
            /\ LET loaded == IF MustInit(syncStore.version)
                                \/ ~Accepted(syncStore.settings)
                             THEN DEFAULT_SETTINGS
                             ELSE syncStore.settings
               IN  /\ ~migrateThrows(loaded)
                   /\ PeerWrites("update",
                                 [settings |-> migrate(loaded),
                                  version |-> Str(CURRENT_VERSION)])

NextContexts ==
    \/ Call("load", Absent) /\ UNCHANGED notSet
    \/ ReadSettings /\ UNCHANGED notSet
    \/ ReadVersion /\ UNCHANGED notSet
    \/ InitWrites /\ UNCHANGED notSet
    \/ \E s \in SavedSettings : PeerSave(s)
    \/ PeerReset
    \/ PeerUpdate

\* What load() tests: the stored values call for the defaults
NeedsInit(store) ==
    IF variant = "versioned"
    THEN MustInit(store.version) \/ ~Accepted(store.settings)
    ELSE ~Accepted(store.settings)

LoadInitWrites == running.op = "load" /\ running.pc = "init" /\ InitWrites

\* C40: when load() in one context interleaves with a save(), reset() or
\* update() of another context on the same sync storage, load() replaces
\* the stored settings with the defaults only if, at the moment of that
\* write, the stored version is absent or not a string or the stored
\* settings value is not an object; it never overwrites a settings object
\* that another context has validly stored in the meantime.
C40_LoadOverwritesOnlyInvalid ==
    [][LoadInitWrites => NeedsInit(syncStore)]_vars

\* The same when the other context has written nothing since load() began
C40_WithoutInterleaving ==
    [][(LoadInitWrites /\ syncStore = before) => NeedsInit(syncStore)]_vars

\* load() has decided to initialise; the other context has since stored
\* the current version and its own settings, which load() is about to
\* replace with the defaults
C40_LostUpdate ==
    /\ running.op = "load" /\ running.pc = "init"
    /\ variant = "versioned"
    /\ peer.writes = 2 /\ peer.last = "save"
    /\ syncStore.version = Str(CURRENT_VERSION)
    /\ syncStore.settings = CustomSettings
    /\ ~NeedsInit(syncStore)

\* The same in the centralized variant, after one save()
C40_LostSave ==
    /\ running.op = "load" /\ running.pc = "init"
    /\ variant = "centralized"
    /\ peer.writes = 1 /\ peer.last = "save"
    /\ syncStore.settings = CustomSettings


\* The subsystems above, at rest
ExtrasIdle ==
    CompareIdle /\ AlarmsIdle /\ SweepIdle /\ NormaliseIdle /\ PeerIdle

(***************************************************************************)
(* Specifications: one per subsystem.  The other subsystems stay idle.     *)
(***************************************************************************)
InitActivate ==
    /\ OptionsIdle /\ MigrateIdle /\ UpdateIdle /\ MountIdle /\ ExtrasIdle
    /\ SendIdle /\ BusIdle /\ StoreIdle /\ SettingIdle /\ MigrationIdle
    /\ CoreIdle
    /\ PolicyIdle
    /\ KvIdle
    /\ payload \in Payloads
    /\ sender \in Senders
    /\ hpc = "received"
    /\ response = None
    /\ handed = NotHanded
    /\ urls = <<>>
    /\ createInFlight = FALSE
    /\ nextTimer = NoTimer
    /\ removeTimers = 0
    /\ creations = <<>>
    /\ failed = FALSE
    /\ now = 0

SpecActivate == InitActivate /\ [][NextActivate]_vars

InitSend ==
    /\ OptionsIdle /\ MigrateIdle /\ UpdateIdle /\ MountIdle /\ ExtrasIdle
    /\ ActivateIdle /\ SendIdle /\ BusIdle
    /\ StoreIdle /\ SettingIdle /\ MigrationIdle
    /\ CoreIdle
    /\ PolicyIdle
    /\ KvIdle

SpecSend == InitSend /\ [][NextSend]_vars

InitBus ==
    /\ OptionsIdle /\ MigrateIdle /\ UpdateIdle /\ MountIdle /\ ExtrasIdle
    /\ ActivateIdle /\ SendIdle /\ StoreIdle /\ SettingIdle /\ MigrationIdle
    /\ CoreIdle
    /\ PolicyIdle
    /\ KvIdle
    /\ onType \in MessageTypes
    /\ deliveries = <<>>

SpecBus == InitBus /\ [][NextBus]_vars

InitSetting ==
    /\ OptionsIdle /\ MigrateIdle /\ UpdateIdle /\ MountIdle /\ ExtrasIdle
    /\ ActivateIdle /\ SendIdle /\ BusIdle /\ MigrationIdle
    /\ CoreIdle
    /\ PolicyIdle
    /\ KvIdle
    /\ syncStore \in { [settings |-> s, version |-> v, other |-> o] :
                          s \in StoredSettings, v \in StoredVersions,
                          o \in {Absent, Str(<<"o">>)} }
    /\ localStore = EmptyStore
    /\ written = <<>>
    /\ variant \in Variants
    /\ running = NotRunning
    /\ settled = Pending
    /\ before = EmptyStore
    /\ previous = NoPrevious

SpecSetting == InitSetting /\ [][NextSetting]_vars

SpecSettingFault == InitSetting /\ [][NextSettingFault]_vars

InitMigration ==
    /\ OptionsIdle /\ MigrateIdle /\ UpdateIdle /\ MountIdle /\ ExtrasIdle
    /\ CoreIdle
    /\ PolicyIdle
    /\ KvIdle
    /\ ActivateIdle /\ SendIdle /\ BusIdle /\ SettingIdle
    /\ syncStore \in { [settings |-> DEFAULT_SETTINGS, version |-> v,
                        other |-> Absent] :
                          v \in {Absent, Num(2)} \cup
                                {Str(s) : s \in Versions} }
    /\ localStore = EmptyStore
    /\ written = <<>>
    /\ manifest \in {Str(v) : v \in Versions}
    /\ migrations \in Migrations
    /\ run = NotStarted
    /\ lastRun = NoRun

SpecMigration == InitMigration /\ [][NextMigration]_vars

InitCore ==
    /\ OptionsIdle /\ MigrateIdle /\ UpdateIdle /\ MountIdle /\ ExtrasIdle
    /\ core = NewCore
    /\ dom = NewDom
    /\ gesture = NewGesture
    /\ page \in Pages
    /\ ActivateIdle
    /\ SendIdle
    /\ BusIdle
    /\ StoreIdle
    /\ SettingIdle
    /\ MigrationIdle
    /\ PolicyIdle
    /\ KvIdle

SpecCore == InitCore /\ [][NextCore]_vars

OthersIdle ==
    /\ ActivateIdle
    /\ SendIdle
    /\ BusIdle
    /\ StoreIdle
    /\ SettingIdle
    /\ MigrationIdle
    /\ CoreIdle

InitPolicy ==
    /\ OptionsIdle /\ MigrateIdle /\ UpdateIdle /\ MountIdle /\ ExtrasIdle
    /\ worker \in Workers
    /\ toolbar = [ t \in Tabs |-> Untouched ]
    /\ OthersIdle
    /\ KvIdle

SpecPolicy == InitPolicy /\ [][NextPolicy]_vars

InitKv ==
    /\ OptionsIdle /\ MigrateIdle /\ UpdateIdle /\ MountIdle /\ ExtrasIdle
    /\ areas \in { [ a \in Areas |->
                       IF a = "managed" THEN m
                       ELSE [ k \in KvKeys |-> NoValue ] ] :
                   m \in ManagedPolicies }
    /\ platformCalls = 0
    /\ kvCall = NotCalled
    /\ OthersIdle
    /\ PolicyIdle

SpecKv == InitKv /\ [][NextKv]_vars

InitOptions ==
    /\ optionsPage \in { [action |-> t, options |-> o, changed |-> FALSE,
                          from |-> NoOptions] :
                           t \in ActionTypes, o \in OptionObjects }
    /\ MigrateIdle /\ UpdateIdle /\ MountIdle /\ ExtrasIdle
    /\ OthersIdle /\ PolicyIdle /\ KvIdle

SpecOptions == InitOptions /\ [][NextOptions]_vars

InitMigratePass ==
    /\ cfgRun \in { [input |-> s, results |-> <<>>] : s \in MigrateInputs }
    /\ OptionsIdle /\ UpdateIdle /\ MountIdle /\ ExtrasIdle
    /\ OthersIdle /\ PolicyIdle /\ KvIdle

SpecMigratePass == InitMigratePass /\ [][NextMigratePass]_vars

InitUpdate ==
    /\ upd = NoUpdate
    /\ OptionsIdle /\ MigrateIdle /\ MountIdle /\ ExtrasIdle
    /\ OthersIdle /\ PolicyIdle /\ KvIdle

SpecUpdate == InitUpdate /\ [][NextUpdate]_vars

InitMount ==
    /\ doc \in { [elements |-> e, mounts |-> <<>>] :
                   e \in { <<>>, <<Element("app", "x")>>,
                           <<Element("other", "x")>> } }
    /\ OptionsIdle /\ MigrateIdle /\ UpdateIdle /\ ExtrasIdle
    /\ OthersIdle /\ PolicyIdle /\ KvIdle

SpecMount == InitMount /\ [][NextMount]_vars


InitCompare ==
    /\ OptionsIdle /\ MigrateIdle /\ UpdateIdle /\ MountIdle
    /\ OthersIdle /\ PolicyIdle /\ KvIdle
    /\ AlarmsIdle /\ SweepIdle /\ NormaliseIdle /\ PeerIdle
    /\ \E a, b, c \in WellFormedVersions :
           cmp = [NotCompared EXCEPT !.a = a, !.b = b, !.c = c]

SpecCompare == InitCompare /\ [][NextCompare]_vars

InitAlarms ==
    /\ OptionsIdle /\ MigrateIdle /\ UpdateIdle /\ MountIdle
    /\ OthersIdle /\ PolicyIdle /\ KvIdle
    /\ CompareIdle /\ SweepIdle /\ NormaliseIdle /\ PeerIdle
    /\ \E left \in SUBSET AlarmNames :
           alarmSys = [alarms |-> [n \in AlarmNames |->
                                      IF n \in left THEN MaxEvents + 1
                                      ELSE NoAlarm],
                       queue |-> <<>>, runs |-> <<>>]

SpecAlarms == InitAlarms /\ [][NextAlarms]_vars

InitSweep ==
    /\ OptionsIdle /\ MigrateIdle /\ UpdateIdle /\ MountIdle
    /\ OthersIdle /\ PolicyIdle /\ KvIdle
    /\ CompareIdle /\ AlarmsIdle /\ NormaliseIdle /\ PeerIdle
    /\ sweep = [NoSweep EXCEPT !.sync = OtherKeys, !.local = OtherKeys]

SpecSweep == InitSweep /\ [][NextSweep]_vars

InitNormalise ==
    /\ OptionsIdle /\ MigrateIdle /\ UpdateIdle /\ MountIdle
    /\ OthersIdle /\ PolicyIdle /\ KvIdle
    /\ CompareIdle /\ AlarmsIdle /\ SweepIdle /\ PeerIdle
    /\ norm = <<>>

SpecNormalise == InitNormalise /\ [][NextNormalise]_vars

\* The callbacks of a set timer and of a running interval are run by the
\* browser; no input event has to occur
SpecCoreLive ==
    /\ InitCore /\ [][NextCore]_vars
    /\ WF_vars(BounceTimerFires)
    /\ WF_vars(ScrollStops)

InitReleases ==
    /\ OptionsIdle /\ MigrateIdle /\ UpdateIdle /\ MountIdle /\ ExtrasIdle
    /\ CoreIdle /\ PolicyIdle /\ KvIdle
    /\ ActivateIdle /\ SendIdle /\ BusIdle /\ SettingIdle
    /\ syncStore \in { [settings |-> DEFAULT_SETTINGS, version |-> v,
                        other |-> Absent] :
                          v \in {Absent, Num(2)} \cup
                                {Str(s) : s \in Versions} }
    /\ localStore = EmptyStore
    /\ written = <<>>
    /\ manifest \in {Str(v) : v \in Versions}
    /\ migrations \in ReleaseLists
    /\ run = NotStarted
    /\ lastRun = NoRun

SpecReleases == InitReleases /\ [][NextReleases]_vars

SpecContexts == InitSetting /\ [][NextContexts]_vars
====
